---- MODULE Spec2Model ----
(***************************************************************************)
(* DrapeEngine (drape_frontend/drape_engine.cpp): the facade that turns    *)
(* calls of the controlling threads into messages for the two renderer     *)
(* threads (FrontendRenderer on RenderThread, BackendRenderer on           *)
(* ResourceUploadThread), into user events for the FrontendRenderer, and   *)
(* that owns the viewport, the mode flags, the DrapeID generator and the   *)
(* teardown sequence.                                                      *)
(*                                                                         *)
(* ThreadsCommutator, the message queue, the renderers' thread loop and    *)
(* the Blocker are declared elsewhere in the repository; they are modelled *)
(* from the design document.                                               *)
(*                                                                         *)
(* Doubles (the font scale factor) are modelled in tenths: 5 is 0.5,       *)
(* 20 is 2.0.  dp::DrapeID is an unsigned 64 bit counter; the model stays  *)
(* far below its wrap-around.                                              *)
(***************************************************************************)
EXTENDS Integers, Sequences, FiniteSets, TLC

VARIABLES
  m_viewport,               \* [x0, y0, w, h]
  guiSurfaceSize,           \* gui::DrapeGui surface size [w, h]
  fontScale,                \* VisualParams font scale, in tenths
  m_choosePositionMode,
  m_kineticScrollEnabled,
  m_drapeIdGenerator,
  m_drapeIdGeneratorMutex,  \* the caller holding the mutex, or "free"
  queue,                    \* [context -> [priority -> sequence of messages]]
  nextId,                   \* post sequence number of the next message
  userEvents,               \* events handed to FrontendRenderer::AddUserEvent
  wstate,                   \* [context -> "idle" | "executing" | "stopped"]
  current,                  \* [context -> the message in execution, or NoMsg]
  processed,                \* [context -> messages executed, in order]
  stopRequested,            \* [context -> Teardown() has been called]
  cpc,                      \* [caller -> position inside a facade call]
  cop,                      \* [caller -> the facade call it is in]
  ret,                      \* [caller -> value read by GenerateDrapeID]
  blocker,                  \* [caller -> "none" | "armed" | "signaled"]
  highAhead,                \* [caller -> High lane depth when its blocking message was posted]
  takenSince,               \* [caller -> messages dequeued since, before its own]
  blockers,                 \* the Blockers constructed so far, one per blocking call
  returned,                 \* completed GenerateDrapeID calls, in completion order
  genSeen,                  \* [caller -> values already returned when its call began]
  dtor,                     \* position inside ~DrapeEngine
  commutatorAlive,
  renderersAlive,
  guiAlive,
  textureReleased,
  lastCall,                 \* the last facade call, with the facade state before it
  lastPosted,               \* the messages it posted, in order
  lastEvents,               \* the user events it added, in order
  mpParams,                 \* what the constructor read about the position mode, and the mode it chose
  lastResize,               \* the last ResizeEvent handed to AddUserEvent
  renderingEnabled,         \* [context -> its renderer has rendering enabled]
  rcall                     \* position inside SetRenderingEnabled / SetRenderingDisabled

facadeVars == <<m_viewport, guiSurfaceSize, fontScale, m_choosePositionMode, m_kineticScrollEnabled>>
idVars     == <<m_drapeIdGenerator, m_drapeIdGeneratorMutex, ret, returned, genSeen>>
msgVars    == <<queue, nextId, userEvents>>
workerVars == <<wstate, current, processed, stopRequested>>
callerVars == <<cpc, cop, blocker, highAhead, takenSince, blockers>>
dtorVars   == <<dtor, commutatorAlive, renderersAlive, guiAlive, textureReleased>>
histVars   == <<lastCall, lastPosted, lastEvents, mpParams, lastResize>>
renderVars == <<renderingEnabled, rcall>>

vars == <<facadeVars, idVars, msgVars, workerVars, callerVars, dtorVars, histVars, renderVars>>

----------------------------------------------------------------------------
(* Bounds of the model. *)

MaxPosts == 3      \* messages the callers may post after construction
MaxDim == 2        \* widths and heights passed to Resize and Update go up to MaxDim
MaxEvents == 2     \* user events pending in the FrontendRenderer
MaxIds == 3        \* GenerateDrapeID calls

----------------------------------------------------------------------------
(* Contexts, priorities, callers. *)

RenderThread == "RenderThread"
ResourceUploadThread == "ResourceUploadThread"
ThreadName == {RenderThread, ResourceUploadThread}

High == "High"
Normal == "Normal"
Low == "Low"
MessagePriority == {High, Normal, Low}

Rank(p) == IF p = High THEN 2 ELSE IF p = Normal THEN 1 ELSE 0

Callers == {"c1", "c2"}

Dims == 1..MaxDim

\* Update(int w, int h) asserts nothing about its arguments: zero is passed
\* on to ResizeImpl as it is.  (A negative int would wrap to a large
\* unsigned width; the model leaves it out.)
UpdateDims == 0..MaxDim

\* Font scale factors a caller may ask for, in tenths: -1.0, 0.3, 0.5, 1.0, 2.0, 2.1, 5.0
ScaleFactors == {-10, 3, 5, 10, 20, 21, 50}

NoMsg == [id |-> 0, ctx |-> "none", kind |-> "none", prio |-> "none",
          flag |-> FALSE, flag2 |-> FALSE, num |-> 0, tag |-> "none",
          blocker |-> "none"]

\* A message to post: its target, class and priority; the payload fields are
\* set with EXCEPT by the operation that builds it.
Message(ctx, kind, prio) == [NoMsg EXCEPT !.ctx = ctx, !.kind = kind, !.prio = prio]

EmptyQueue == [p \in MessagePriority |-> <<>>]

----------------------------------------------------------------------------
(* ThreadsCommutator and the per-context message queue. *)

\* Faulty variant: a posted message goes to the front of its lane.
PostMessage_Front(q, m) == [q EXCEPT ![m.ctx][m.prio] = <<m>> \o @]

\* ThreadsCommutator::PostMessage: the message goes to the back of its
\* priority's lane in the target context's queue.
PostMessage(q, m) == [q EXCEPT ![m.ctx][m.prio] = Append(@, m)]

\* Posting a sequence of messages, numbered from id in post order.
RECURSIVE PostAll(_, _, _)
PostAll(q, id, posts) ==
  IF posts = <<>> THEN q
  ELSE PostAll(PostMessage(q, [Head(posts) EXCEPT !.id = id]), id + 1, Tail(posts))

Stamp(id, posts) == [i \in 1..Len(posts) |-> [posts[i] EXCEPT !.id = id + i - 1]]

QueueSize(lanes) == Len(lanes[High]) + Len(lanes[Normal]) + Len(lanes[Low])

\* Faulty variant: the Normal lane is served before the High lane.
FrontLane_NormalFirst(lanes) ==
  IF lanes[Normal] # <<>> THEN Normal
  ELSE IF lanes[High] # <<>> THEN High
  ELSE Low

\* The lane the next message is taken from: High, then Normal, then Low.
FrontLane(lanes) ==
  IF lanes[High] # <<>> THEN High
  ELSE IF lanes[Normal] # <<>> THEN Normal
  ELSE Low

FrontMessage(lanes) == Head(lanes[FrontLane(lanes)])

\* Faulty variant: the message taken is left in its lane.
PopMessage_Keep(lanes) == lanes

PopMessage(lanes) == [lanes EXCEPT ![FrontLane(lanes)] = Tail(@)]

\* The messages waiting in a context's queue, in the order they will be taken.
PendingSeq(ctx) == queue[ctx][High] \o queue[ctx][Normal] \o queue[ctx][Low]

\* The messages a context has taken so far, in the order it took them.
Taken(ctx) ==
  IF current[ctx] = NoMsg THEN processed[ctx] ELSE Append(processed[ctx], current[ctx])

\* Every message of a context, waiting or taken.
AllMessages(ctx) == PendingSeq(ctx) \o Taken(ctx)

----------------------------------------------------------------------------
(* Facade state seen by the claims. *)

Facade == [viewport |-> m_viewport, surface |-> guiSurfaceSize, fontScale |-> fontScale,
           choose |-> m_choosePositionMode, kinetic |-> m_kineticScrollEnabled]

Call(op) == [op |-> op, w |-> 0, h |-> 0, flag |-> FALSE, num |-> 0, pre |-> Facade]

Running == dtor = "none"

SomeCallerFree == \E c \in Callers : cpc[c] = "idle"

----------------------------------------------------------------------------
(* The messages the facade builds. *)

\* DrapeEngine::RecacheGui
RecacheGui(needResetOldGui) ==
  <<[Message(ResourceUploadThread, "GuiRecacheMessage", High) EXCEPT !.flag = needResetOldGui]>>

\* DrapeEngine::RecacheMapShapes
RecacheMapShapes ==
  <<Message(ResourceUploadThread, "MapShapesRecacheMessage", Normal)>>

\* DrapeEngine::StopLocationFollow
StopLocationFollowPosts ==
  <<[Message(RenderThread, "ChangeMyPositionModeMessage", High) EXCEPT !.tag = "StopFollowing"]>>

ShowChoosePositionMark ==
  <<Message(ResourceUploadThread, "ShowChoosePositionMarkMessage", High)>>

\* Faulty variant: entering the mode does not force kinetic scrolling off.
ChooseKineticScroll_Keep(enable, kineticScrollEnabled) == kineticScrollEnabled

\* The kinetic scroll value EnableChoosePositionMode puts in its message.
ChooseKineticScroll(enable, kineticScrollEnabled) ==
  IF enable THEN FALSE ELSE kineticScrollEnabled

\* Faulty variant: the mode-set message is posted first.
EnableChoosePositionModePosts_ModeFirst(enable, kineticScrollEnabled) ==
  <<[Message(RenderThread, "SetAddNewPlaceModeMessage", High)
       EXCEPT !.flag = enable,
              !.flag2 = ChooseKineticScroll(enable, kineticScrollEnabled)]>>
  \o (IF enable THEN StopLocationFollowPosts \o ShowChoosePositionMark
                 ELSE RecacheGui(TRUE))

\* The messages of DrapeEngine::EnableChoosePositionMode, in post order.
EnableChoosePositionModePosts(enable, kineticScrollEnabled) ==
  (IF enable THEN StopLocationFollowPosts \o ShowChoosePositionMark
             ELSE RecacheGui(TRUE))
  \o <<[Message(RenderThread, "SetAddNewPlaceModeMessage", High)
          EXCEPT !.flag = enable,
                 !.flag2 = ChooseKineticScroll(enable, kineticScrollEnabled)]>>

\* Faulty variant: the event carries the height as width and the width as height.
ResizeEvent_Swapped(w, h) == [kind |-> "ResizeEvent", w |-> h, h |-> w]

ResizeEvent(w, h) == [kind |-> "ResizeEvent", w |-> w, h |-> h]

\* The messages the constructor posts before it returns.
CtorPosts(showChoosePositionMark, kineticScrollEnabled) ==
  RecacheGui(FALSE) \o RecacheMapShapes
  \o (IF showChoosePositionMark
      THEN EnableChoosePositionModePosts(TRUE, kineticScrollEnabled) ELSE <<>>)

\* Posting stops at this message id, which bounds every queue and log.
CapId == Len(CtorPosts(TRUE, TRUE)) + MaxPosts

CanPost(k) == nextId + k - 1 <= CapId

----------------------------------------------------------------------------
(* The state after DrapeEngine::DrapeEngine. *)

\* location::EMyPositionMode
EMyPositionMode == {"PendingPosition", "NotFollowNoPosition", "NotFollow", "Follow", "FollowAndRotate"}

\* What settings::Get finds under a key: nothing, or a value.
Absent == "absent"

\* The "ScreenClipRect" setting: absent, or a rect that the world rect
\* contains or does not contain.
ScreenClipRects == {Absent, "inside", "outside"}

\* What the constructor reads: params.m_initialMyPositionMode (mode, flag),
\* the stored kLocationStateMode and the stored "ScreenClipRect".
StartInputs ==
  [first : EMyPositionMode, second : BOOLEAN,
   stored : EMyPositionMode \cup {Absent}, rect : ScreenClipRects]

\* Faulty variant: follow-and-rotate is kept whatever the stored rect.
InitialMyPositionMode_NoDowngrade(in) ==
  LET found == ~in.second /\ in.stored # Absent
      mode  == IF found THEN in.stored ELSE in.first
  IN IF ~in.second /\ ~found THEN "PendingPosition" ELSE mode

\* The mode the constructor hands to MyPositionController::Params.
\* settings::Get is called only when the flag is unset, and then
\* overwrites the supplied mode with the stored one, if there is one.
InitialMyPositionMode(in) ==
  LET found == ~in.second /\ in.stored # Absent
      mode  == IF found THEN in.stored ELSE in.first
  IN IF ~in.second /\ ~found THEN "PendingPosition"
     ELSE IF mode = "FollowAndRotate"
          THEN (IF ~(in.rect # Absent /\ in.rect = "inside") THEN "Follow" ELSE mode)
          ELSE mode

\* The inputs of every start but those that study the position mode.
DefaultStart == [first |-> "PendingPosition", second |-> FALSE, stored |-> Absent, rect |-> Absent]

\* The position mode part of the constructor.
CtorMode(in) == mpParams = [in |-> in, mode |-> InitialMyPositionMode(in)]

\* Everything but the queues, the renderers' record of executed messages
\* and the position mode.
CtorMembers(w, h, fontsScaleFactor, showChoosePositionMark) ==
  LET posts == CtorPosts(showChoosePositionMark, TRUE) IN
  /\ m_viewport = [x0 |-> 0, y0 |-> 0, w |-> w, h |-> h]
  /\ guiSurfaceSize = [w |-> w, h |-> h]
  /\ fontScale = fontsScaleFactor
  /\ m_choosePositionMode = showChoosePositionMark
  /\ m_kineticScrollEnabled = TRUE      \* the member's default
  /\ m_drapeIdGenerator = 0
  /\ m_drapeIdGeneratorMutex = "free"
  /\ nextId = Len(posts) + 1
  /\ userEvents = <<ResizeEvent(w, h)>>
  /\ wstate = [ctx \in ThreadName |-> "idle"]
  /\ current = [ctx \in ThreadName |-> NoMsg]
  /\ stopRequested = [ctx \in ThreadName |-> FALSE]
  /\ cpc = [c \in Callers |-> "idle"]
  /\ cop = [c \in Callers |-> "none"]
  /\ ret = [c \in Callers |-> 0]
  /\ blocker = [c \in Callers |-> "none"]
  /\ highAhead = [c \in Callers |-> 0]
  /\ takenSince = [c \in Callers |-> 0]
  /\ blockers = <<>>
  /\ returned = <<>>
  /\ genSeen = [c \in Callers |-> {}]
  /\ dtor = "none"
  /\ commutatorAlive = TRUE
  /\ renderersAlive = TRUE
  /\ guiAlive = TRUE
  /\ textureReleased = FALSE
  /\ lastCall = [op |-> "DrapeEngine", w |-> w, h |-> h, flag |-> showChoosePositionMark,
                 num |-> fontsScaleFactor,
                 pre |-> [viewport |-> [x0 |-> 0, y0 |-> 0, w |-> w, h |-> h],
                          surface |-> [w |-> w, h |-> h], fontScale |-> fontsScaleFactor,
                          choose |-> FALSE, kinetic |-> TRUE]]
  /\ lastPosted = Stamp(1, posts)
  /\ lastEvents = <<ResizeEvent(w, h)>>
  /\ lastResize = ResizeEvent(w, h)
  /\ renderingEnabled = [ctx \in ThreadName |-> TRUE]
  /\ rcall = "none"

\* The queues as the constructor leaves them.
CtorQueue(showChoosePositionMark) ==
  PostAll([ctx \in ThreadName |-> EmptyQueue], 1, CtorPosts(showChoosePositionMark, TRUE))

Ctor(w, h, fontsScaleFactor, showChoosePositionMark) ==
  /\ CtorMembers(w, h, fontsScaleFactor, showChoosePositionMark)
  /\ CtorMode(DefaultStart)
  /\ queue = CtorQueue(showChoosePositionMark)
  /\ processed = [ctx \in ThreadName |-> <<>>]

\* The order in which a renderer left alone executes what waits in its queue.
RECURSIVE Drain(_)
Drain(lanes) ==
  IF QueueSize(lanes) = 0 THEN <<>>
  ELSE <<FrontMessage(lanes)>> \o Drain(PopMessage(lanes))

\* The engine some time after construction: both renderers have executed
\* the constructor's messages and no call has been made yet.
CtorSettled(w, h, fontsScaleFactor, showChoosePositionMark) ==
  /\ CtorMembers(w, h, fontsScaleFactor, showChoosePositionMark)
  /\ CtorMode(DefaultStart)
  /\ queue = [ctx \in ThreadName |-> EmptyQueue]
  /\ processed = [ctx \in ThreadName |-> Drain(CtorQueue(showChoosePositionMark)[ctx])]

Init == \E w \in Dims, h \in Dims, showChoosePositionMark \in BOOLEAN :
          Ctor(w, h, 10, showChoosePositionMark)

----------------------------------------------------------------------------
(* Facade operations that complete in one step. *)

\* The ResizeEvents among the events a call adds.
ResizeEventsOf(events) == SelectSeq(events, LAMBDA e : e.kind = "ResizeEvent")

\* What every facade call does to the queues, the event stream and the record
\* of the last call.
FacadeStep(call, posts, events) ==
  /\ queue' = PostAll(queue, nextId, posts)
  /\ nextId' = nextId + Len(posts)
  /\ userEvents' = userEvents \o events
  /\ lastCall' = call
  /\ lastPosted' = Stamp(nextId, posts)
  /\ lastEvents' = events
  /\ lastResize' = IF ResizeEventsOf(events) = <<>> THEN lastResize
                   ELSE ResizeEventsOf(events)[Len(ResizeEventsOf(events))]
  /\ UNCHANGED <<mpParams, renderVars>>

CanCall(posts, events) ==
  /\ Running
  /\ SomeCallerFree
  /\ CanPost(Len(posts))
  /\ Len(userEvents) + Len(events) <= MaxEvents

\* Faulty variant: the viewport keeps its old width.
ResizeImplViewport_KeepWidth(w, h) == [x0 |-> 0, y0 |-> 0, w |-> m_viewport.w, h |-> h]

\* DrapeEngine::ResizeImpl: the new viewport, the gui surface size, the event.
ResizeImplViewport(w, h) == [x0 |-> 0, y0 |-> 0, w |-> w, h |-> h]

\* Faulty variant: ResizeImpl is taken only when both dimensions differ.
ResizeNeeded_Both(w, h) == m_viewport.h # h /\ m_viewport.w # w

\* DrapeEngine::Resize takes ResizeImpl only when a dimension differs.
ResizeNeeded(w, h) == m_viewport.h # h \/ m_viewport.w # w

Resize ==
  \E w \in Dims, h \in Dims :
    LET events == IF ResizeNeeded(w, h) THEN <<ResizeEvent(w, h)>> ELSE <<>> IN
    /\ CanCall(<<>>, events)
    /\ IF ResizeNeeded(w, h)
       THEN /\ m_viewport' = ResizeImplViewport(w, h)
            /\ guiSurfaceSize' = [w |-> w, h |-> h]
       ELSE UNCHANGED <<m_viewport, guiSurfaceSize>>
    /\ FacadeStep([Call("Resize") EXCEPT !.w = w, !.h = h], <<>>, events)
    /\ UNCHANGED <<fontScale, m_choosePositionMode, m_kineticScrollEnabled>>
    /\ UNCHANGED <<idVars, workerVars, callerVars, dtorVars>>

Update ==
  \E w \in UpdateDims, h \in UpdateDims :
    LET posts == (IF m_choosePositionMode THEN ShowChoosePositionMark ELSE <<>>)
                 \o RecacheGui(FALSE) \o RecacheMapShapes
                 \o <<Message(RenderThread, "RecoverGLResourcesMessage", High)>>
        events == <<ResizeEvent(w, h)>>
    IN
    /\ CanCall(posts, events)
    /\ m_viewport' = ResizeImplViewport(w, h)
    /\ guiSurfaceSize' = [w |-> w, h |-> h]
    /\ FacadeStep([Call("Update") EXCEPT !.w = w, !.h = h], posts, events)
    /\ UNCHANGED <<fontScale, m_choosePositionMode, m_kineticScrollEnabled>>
    /\ UNCHANGED <<idVars, workerVars, callerVars, dtorVars>>

SetVisibleViewport ==
  /\ CanCall(<<Message(RenderThread, "SetVisibleViewportMessage", Normal)>>, <<>>)
  /\ FacadeStep(Call("SetVisibleViewport"),
                <<Message(RenderThread, "SetVisibleViewportMessage", Normal)>>, <<>>)
  /\ UNCHANGED <<facadeVars, idVars, workerVars, callerVars, dtorVars>>

\* Faulty variant: the post is a hand-over; the caller waits until the
\* RenderThread is idle with an empty queue.
Invalidate_Handover ==
  /\ wstate[RenderThread] = "idle"
  /\ QueueSize(queue[RenderThread]) = 0
  /\ CanCall(<<Message(RenderThread, "InvalidateMessage", High)>>, <<>>)
  /\ FacadeStep(Call("Invalidate"),
                <<Message(RenderThread, "InvalidateMessage", High)>>, <<>>)
  /\ UNCHANGED <<facadeVars, idVars, workerVars, callerVars, dtorVars>>

Invalidate ==
  /\ CanCall(<<Message(RenderThread, "InvalidateMessage", High)>>, <<>>)
  /\ FacadeStep(Call("Invalidate"),
                <<Message(RenderThread, "InvalidateMessage", High)>>, <<>>)
  /\ UNCHANGED <<facadeVars, idVars, workerVars, callerVars, dtorVars>>

UpdateUserMarksLayer ==
  /\ CanCall(<<Message(ResourceUploadThread, "UpdateUserMarkLayerMessage", Normal)>>, <<>>)
  /\ FacadeStep(Call("UpdateUserMarksLayer"),
                <<Message(ResourceUploadThread, "UpdateUserMarkLayerMessage", Normal)>>, <<>>)
  /\ UNCHANGED <<facadeVars, idVars, workerVars, callerVars, dtorVars>>

EnableChoosePositionMode ==
  \E enable \in BOOLEAN :
    LET posts == EnableChoosePositionModePosts(enable, m_kineticScrollEnabled) IN
    /\ CanCall(posts, <<>>)
    /\ m_choosePositionMode' = enable
    /\ FacadeStep([Call("EnableChoosePositionMode") EXCEPT !.flag = enable], posts, <<>>)
    /\ UNCHANGED <<m_viewport, guiSurfaceSize, fontScale, m_kineticScrollEnabled>>
    /\ UNCHANGED <<idVars, workerVars, callerVars, dtorVars>>

\* Faulty variant: the message is posted whatever the mode.
SetKineticScrollEnabledPosts_Always(choosePositionMode, enabled) ==
  <<[Message(RenderThread, "SetKineticScrollEnabledMessage", High) EXCEPT !.flag = enabled]>>

\* The messages of DrapeEngine::SetKineticScrollEnabled: none in
\* choose-position mode (the early return), else one carrying the new value.
SetKineticScrollEnabledPosts(choosePositionMode, enabled) ==
  IF choosePositionMode THEN <<>>
  ELSE <<[Message(RenderThread, "SetKineticScrollEnabledMessage", High)
           EXCEPT !.flag = enabled]>>

\* Faulty variant: the message carries the value the flag had before the call.
SetKineticScrollEnabled_Stale ==
  \E enabled \in BOOLEAN :
    LET posts == SetKineticScrollEnabledPosts(m_choosePositionMode, m_kineticScrollEnabled) IN
    /\ CanCall(posts, <<>>)
    /\ m_kineticScrollEnabled' = enabled
    /\ FacadeStep([Call("SetKineticScrollEnabled") EXCEPT !.flag = enabled], posts, <<>>)
    /\ UNCHANGED <<m_viewport, guiSurfaceSize, fontScale, m_choosePositionMode>>
    /\ UNCHANGED <<idVars, workerVars, callerVars, dtorVars>>

SetKineticScrollEnabled ==
  \E enabled \in BOOLEAN :
    LET posts == SetKineticScrollEnabledPosts(m_choosePositionMode, enabled) IN
    /\ CanCall(posts, <<>>)
    /\ m_kineticScrollEnabled' = enabled
    /\ FacadeStep([Call("SetKineticScrollEnabled") EXCEPT !.flag = enabled], posts, <<>>)
    /\ UNCHANGED <<m_viewport, guiSurfaceSize, fontScale, m_choosePositionMode>>
    /\ UNCHANGED <<idVars, workerVars, callerVars, dtorVars>>

kMinScaleFactor == 5
kMaxScaleFactor == 20

\* my::clamp
clamp(x, xmin, xmax) == IF x > xmax THEN xmax ELSE IF x < xmin THEN xmin ELSE x

\* Faulty variant: the requested factor is applied as it is.
FontScaleApplied_Unclamped(scaleFactor) == scaleFactor

\* The value DrapeEngine::SetFontScaleFactor hands to VisualParams::SetFontScale.
FontScaleApplied(scaleFactor) == clamp(scaleFactor, kMinScaleFactor, kMaxScaleFactor)

SetFontScaleFactor ==
  \E scaleFactor \in ScaleFactors :
    /\ CanCall(<<>>, <<>>)
    /\ fontScale' = FontScaleApplied(scaleFactor)
    /\ FacadeStep([Call("SetFontScaleFactor") EXCEPT !.num = scaleFactor], <<>>, <<>>)
    /\ UNCHANGED <<m_viewport, guiSurfaceSize, m_choosePositionMode, m_kineticScrollEnabled>>
    /\ UNCHANGED <<idVars, workerVars, callerVars, dtorVars>>

----------------------------------------------------------------------------
(* Posts made through the commutator by the renderers themselves: both hold *)
(* a reference to it and use every priority.                                *)

RendererPost(ctx, prio) ==
  /\ commutatorAlive
  /\ \E from \in ThreadName : wstate[from] # "stopped"
  /\ CanPost(1)
  /\ queue' = PostAll(queue, nextId, <<Message(ctx, "RendererMessage", prio)>>)
  /\ nextId' = nextId + 1
  /\ UNCHANGED <<userEvents, facadeVars, idVars, workerVars, callerVars, dtorVars, histVars, renderVars>>

----------------------------------------------------------------------------
(* The Blocker of a blocking call and the result holder that travels with   *)
(* it.  A Blocker is identified by the id of the one message that carries   *)
(* it; the renderer's answer to a request is modelled as a token naming the *)
(* request, so that an answer read from another request's holder shows.     *)

NewBlocker(id, c, kind) ==
  [id |-> id, caller |-> c, kind |-> kind, signals |-> 0, writes |-> 0,
   slot |-> 0, read |-> 0, waited |-> FALSE]

\* UpdateMapStyleMessage carries a Blocker only; the other three carry a
\* reference to the caller's result as well.
HasResult(kind) == kind # "UpdateMapStyleMessage"

ResultOf(m) == m.id

\* Faulty variant: the Blocker is signaled without the result being written.
AcceptBlocking_NoWrite(b, m) == [b EXCEPT !.signals = @ + 1]

\* The renderer executes a blocking message: it writes the result, then
\* signals the Blocker.
AcceptBlocking(b, m) ==
  IF HasResult(m.kind)
  THEN [b EXCEPT !.writes = @ + 1, !.slot = ResultOf(m), !.signals = @ + 1]
  ELSE [b EXCEPT !.signals = @ + 1]

\* The Blocker a caller waits on: the one of its call in progress.
LiveBlocker(c) ==
  CHOOSE i \in 1..Len(blockers) : blockers[i].caller = c /\ ~blockers[i].waited

----------------------------------------------------------------------------
(* The renderers' thread loop. *)

\* A waiting caller whose blocking message is still in the queue sees one
\* more message taken ahead of it.
CountTaken(ctx, m) ==
  [c \in Callers |->
     IF /\ ctx = RenderThread
        /\ blocker[c] = "armed"
        /\ m.blocker # c
        /\ \E i \in 1..Len(PendingSeq(ctx)) : PendingSeq(ctx)[i].blocker = c
     THEN takenSince[c] + 1 ELSE takenSince[c]]

\* Faulty variant: a context takes its next message only when no context
\* holds an older one, so messages are executed in post order overall.
Dequeue_PostOrder(ctx) ==
  /\ wstate[ctx] = "idle"
  /\ ~stopRequested[ctx]
  /\ QueueSize(queue[ctx]) > 0
  /\ \A other \in ThreadName \ {ctx} :
       /\ current[other] = NoMsg
       /\ \A i \in 1..Len(PendingSeq(other)) :
            PendingSeq(other)[i].id > FrontMessage(queue[ctx]).id
  /\ current' = [current EXCEPT ![ctx] = FrontMessage(queue[ctx])]
  /\ queue' = [queue EXCEPT ![ctx] = PopMessage(queue[ctx])]
  /\ wstate' = [wstate EXCEPT ![ctx] = "executing"]
  /\ takenSince' = CountTaken(ctx, FrontMessage(queue[ctx]))
  /\ UNCHANGED <<nextId, userEvents, processed, stopRequested>>
  /\ UNCHANGED <<cpc, cop, blocker, highAhead, blockers>>
  /\ UNCHANGED <<facadeVars, idVars, dtorVars, histVars, renderVars>>

\* The loop takes the next message of its queue.
Dequeue(ctx) ==
  /\ wstate[ctx] = "idle"
  /\ ~stopRequested[ctx]
  /\ QueueSize(queue[ctx]) > 0
  /\ current' = [current EXCEPT ![ctx] = FrontMessage(queue[ctx])]
  /\ queue' = [queue EXCEPT ![ctx] = PopMessage(queue[ctx])]
  /\ wstate' = [wstate EXCEPT ![ctx] = "executing"]
  /\ takenSince' = CountTaken(ctx, FrontMessage(queue[ctx]))
  /\ UNCHANGED <<nextId, userEvents, processed, stopRequested>>
  /\ UNCHANGED <<cpc, cop, blocker, highAhead, blockers>>
  /\ UNCHANGED <<facadeVars, idVars, dtorVars, histVars, renderVars>>

\* The message in execution completes; a blocking message signals its Blocker.
Finish(ctx) ==
  /\ wstate[ctx] = "executing"
  /\ processed' = [processed EXCEPT ![ctx] = Append(@, current[ctx])]
  /\ current' = [current EXCEPT ![ctx] = NoMsg]
  /\ wstate' = [wstate EXCEPT ![ctx] = "idle"]
  /\ blocker' = IF current[ctx].blocker # "none"
                THEN [blocker EXCEPT ![current[ctx].blocker] = "signaled"]
                ELSE blocker
  /\ blockers' = [i \in 1..Len(blockers) |->
                    IF blockers[i].id = current[ctx].id
                    THEN AcceptBlocking(blockers[i], current[ctx])
                    ELSE blockers[i]]
  /\ UNCHANGED <<queue, nextId, userEvents, stopRequested>>
  /\ UNCHANGED <<cpc, cop, highAhead, takenSince>>
  /\ UNCHANGED <<facadeVars, idVars, dtorVars, histVars, renderVars>>

\* The FrontendRenderer consumes the pending user events once per frame.
RenderFrame ==
  /\ wstate[RenderThread] = "idle"
  /\ ~stopRequested[RenderThread]
  /\ userEvents # <<>>
  /\ userEvents' = <<>>
  /\ UNCHANGED <<queue, nextId, facadeVars, idVars, workerVars, callerVars, dtorVars, histVars, renderVars>>

\* Teardown() has been called and no message is in execution: the loop ends.
StopThread(ctx) ==
  /\ wstate[ctx] = "idle"
  /\ stopRequested[ctx]
  /\ wstate' = [wstate EXCEPT ![ctx] = "stopped"]
  /\ UNCHANGED <<current, processed, stopRequested>>
  /\ UNCHANGED <<msgVars, facadeVars, idVars, callerVars, dtorVars, histVars, renderVars>>

----------------------------------------------------------------------------
(* Blocking calls: post at the given priority to the RenderThread, Wait().  *)

BlockingPost(c, op, kind, prio) ==
  LET posts == <<[Message(RenderThread, kind, prio) EXCEPT !.blocker = c]>> IN
  /\ Running
  /\ cpc[c] = "idle"
  /\ CanPost(1)
  /\ FacadeStep(Call(op), posts, <<>>)
  /\ cpc' = [cpc EXCEPT ![c] = "wait"]
  /\ cop' = [cop EXCEPT ![c] = op]
  /\ blocker' = [blocker EXCEPT ![c] = "armed"]
  /\ blockers' = Append(blockers, NewBlocker(nextId, c, kind))
  /\ highAhead' = [highAhead EXCEPT ![c] = Len(queue[RenderThread][High])]
  /\ takenSince' = [takenSince EXCEPT ![c] = 0]
  /\ UNCHANGED <<facadeVars, idVars, workerVars, dtorVars>>

UpdateMapStyle(c) == BlockingPost(c, "UpdateMapStyle", "UpdateMapStyleMessage", High)

\* Faulty variant: the blocking message is posted at Low priority.
GetMyPosition_Low(c) == BlockingPost(c, "GetMyPosition", "GetMyPositionMessage", Low)

\* Faulty variant: the blocking message is posted at Normal priority.
GetVisiblePOI_Normal(c) == BlockingPost(c, "GetVisiblePOI", "FindVisiblePOIMessage", Normal)

GetVisiblePOI(c) == BlockingPost(c, "GetVisiblePOI", "FindVisiblePOIMessage", High)

GetSelectedObject(c) == BlockingPost(c, "GetSelectedObject", "GetSelectedObjectMessage", High)

GetMyPosition(c) == BlockingPost(c, "GetMyPosition", "GetMyPositionMessage", High)

\* Faulty variant: Wait() returns without the Blocker being signaled.
WaitReturn_NoWait(c) ==
  LET posts == IF cop[c] = "UpdateMapStyle" THEN RecacheGui(FALSE) ELSE <<>> IN
  /\ cpc[c] = "wait"
  /\ FacadeStep([Call(cop[c]) EXCEPT !.flag = TRUE], posts, <<>>)
  /\ cpc' = [cpc EXCEPT ![c] = "idle"]
  /\ cop' = [cop EXCEPT ![c] = "none"]
  /\ blocker' = [blocker EXCEPT ![c] = "none"]
  /\ blockers' = [blockers EXCEPT ![LiveBlocker(c)] =
                    [@ EXCEPT !.waited = TRUE,
                              !.read = blockers[LiveBlocker(c)].slot]]
  /\ UNCHANGED <<highAhead, takenSince>>
  /\ UNCHANGED <<facadeVars, idVars, workerVars, dtorVars>>

\* blocker.Wait() returns once the Blocker is signaled; UpdateMapStyle then
\* recaches the gui.  The step is recorded as the call's second part
\* (flag set).
WaitReturn(c) ==
  LET posts == IF cop[c] = "UpdateMapStyle" THEN RecacheGui(FALSE) ELSE <<>> IN
  /\ cpc[c] = "wait"
  /\ blocker[c] = "signaled"
  /\ FacadeStep([Call(cop[c]) EXCEPT !.flag = TRUE], posts, <<>>)
  /\ cpc' = [cpc EXCEPT ![c] = "idle"]
  /\ cop' = [cop EXCEPT ![c] = "none"]
  /\ blocker' = [blocker EXCEPT ![c] = "none"]
  /\ blockers' = [blockers EXCEPT ![LiveBlocker(c)] =
                    [@ EXCEPT !.waited = TRUE,
                              !.read = blockers[LiveBlocker(c)].slot]]
  /\ UNCHANGED <<highAhead, takenSince>>
  /\ UNCHANGED <<facadeVars, idVars, workerVars, dtorVars>>

----------------------------------------------------------------------------
(* DrapeEngine::GenerateDrapeID and the two operations that call it.        *)

InGenerate(c) == cpc[c] \in {"gen_lock", "gen_inc", "gen_ret"}

GenerateCalls == Len(returned) + Cardinality({c \in Callers : InGenerate(c)})

ReturnedValues == {returned[i].value : i \in 1..Len(returned)}

\* The caller enters the operation and, in it, GenerateDrapeID.
BeginGenerate(c, op) ==
  /\ Running
  /\ cpc[c] = "idle"
  /\ GenerateCalls < MaxIds
  /\ cpc' = [cpc EXCEPT ![c] = "gen_lock"]
  /\ cop' = [cop EXCEPT ![c] = op]
  /\ genSeen' = [genSeen EXCEPT ![c] = ReturnedValues]
  /\ UNCHANGED <<m_drapeIdGenerator, m_drapeIdGeneratorMutex, ret, returned>>
  /\ UNCHANGED <<blocker, highAhead, takenSince, blockers>>
  /\ UNCHANGED <<facadeVars, msgVars, workerVars, dtorVars, histVars, renderVars>>

AddRouteSegment(c) == BeginGenerate(c, "AddRouteSegment")

AddRoutePreviewSegment(c) == BeginGenerate(c, "AddRoutePreviewSegment")

\* Faulty variant: the counter is entered without taking the mutex.
GenLock_NoMutex(c) ==
  /\ cpc[c] = "gen_lock"
  /\ m_drapeIdGeneratorMutex' = c
  /\ cpc' = [cpc EXCEPT ![c] = "gen_inc"]
  /\ UNCHANGED <<m_drapeIdGenerator, ret, returned, genSeen>>
  /\ UNCHANGED <<cop, blocker, highAhead, takenSince, blockers>>
  /\ UNCHANGED <<facadeVars, msgVars, workerVars, dtorVars, histVars, renderVars>>

\* std::lock_guard<std::mutex> lock(m_drapeIdGeneratorMutex);
GenLock(c) ==
  /\ cpc[c] = "gen_lock"
  /\ m_drapeIdGeneratorMutex = "free"
  /\ m_drapeIdGeneratorMutex' = c
  /\ cpc' = [cpc EXCEPT ![c] = "gen_inc"]
  /\ UNCHANGED <<m_drapeIdGenerator, ret, returned, genSeen>>
  /\ UNCHANGED <<cop, blocker, highAhead, takenSince, blockers>>
  /\ UNCHANGED <<facadeVars, msgVars, workerVars, dtorVars, histVars, renderVars>>

\* ++m_drapeIdGenerator;
GenIncrement(c) ==
  /\ cpc[c] = "gen_inc"
  /\ m_drapeIdGenerator' = m_drapeIdGenerator + 1
  /\ cpc' = [cpc EXCEPT ![c] = "gen_ret"]
  /\ UNCHANGED <<m_drapeIdGeneratorMutex, ret, returned, genSeen>>
  /\ UNCHANGED <<cop, blocker, highAhead, takenSince, blockers>>
  /\ UNCHANGED <<facadeVars, msgVars, workerVars, dtorVars, histVars, renderVars>>

\* return m_drapeIdGenerator; the lock is released as the function returns.
GenReturn(c) ==
  /\ cpc[c] = "gen_ret"
  /\ ret' = [ret EXCEPT ![c] = m_drapeIdGenerator]
  /\ m_drapeIdGeneratorMutex' = "free"
  /\ returned' = Append(returned, [caller |-> c, value |-> m_drapeIdGenerator,
                                   seen |-> genSeen[c]])
  /\ cpc' = [cpc EXCEPT ![c] = "gen_post"]
  /\ UNCHANGED <<m_drapeIdGenerator, genSeen>>
  /\ UNCHANGED <<cop, blocker, highAhead, takenSince, blockers>>
  /\ UNCHANGED <<facadeVars, msgVars, workerVars, dtorVars, histVars, renderVars>>

\* Faulty variant: the message carries the counter as it is when the
\* message is built, not the value GenerateDrapeID returned.
CreationMessage_Reread(op, id) ==
  IF op = "AddRouteSegment"
  THEN [Message(ResourceUploadThread, "AddRouteSegmentMessage", Normal)
          EXCEPT !.num = m_drapeIdGenerator]
  ELSE [Message(RenderThread, "AddRoutePreviewSegmentMessage", Normal)
          EXCEPT !.num = m_drapeIdGenerator]

\* The message that carries the generated id.
CreationMessage(op, id) ==
  IF op = "AddRouteSegment"
  THEN [Message(ResourceUploadThread, "AddRouteSegmentMessage", Normal) EXCEPT !.num = id]
  ELSE [Message(RenderThread, "AddRoutePreviewSegmentMessage", Normal) EXCEPT !.num = id]

\* The operation posts its message and returns the id.
PostCreation(c) ==
  /\ cpc[c] = "gen_post"
  /\ FacadeStep([Call(cop[c]) EXCEPT !.num = ret[c]], <<CreationMessage(cop[c], ret[c])>>, <<>>)
  /\ cpc' = [cpc EXCEPT ![c] = "idle"]
  /\ cop' = [cop EXCEPT ![c] = "none"]
  /\ UNCHANGED <<blocker, highAhead, takenSince, blockers>>
  /\ UNCHANGED <<facadeVars, idVars, workerVars, dtorVars>>

----------------------------------------------------------------------------
(* Removal of routes and custom symbols, traffic.                           *)

\* A facade operation that only posts messages.
PostOnly(call, posts) ==
  /\ CanCall(posts, <<>>)
  /\ FacadeStep(call, posts, <<>>)
  /\ UNCHANGED <<facadeVars, idVars, workerVars, callerVars, dtorVars>>

\* DrapeEngine::StopLocationFollow
StopLocationFollow == PostOnly(Call("StopLocationFollow"), StopLocationFollowPosts)

\* Faulty variant: the removal is posted at High priority.
RemoveRouteSegmentPosts_High(segmentId, deactivateFollowing) ==
  <<[Message(ResourceUploadThread, "RemoveRouteSegmentMessage", High)
      EXCEPT !.num = segmentId, !.flag = deactivateFollowing]>>

RemoveRouteSegmentPosts(segmentId, deactivateFollowing) ==
  <<[Message(ResourceUploadThread, "RemoveRouteSegmentMessage", Normal)
      EXCEPT !.num = segmentId, !.flag = deactivateFollowing]>>

\* The segment ids a caller can name in a removal: those the creation
\* messages of that class carry, each returned to its caller after the post.
SegmentIds(ctx, kind) ==
  {AllMessages(ctx)[i].num :
     i \in {j \in 1..Len(AllMessages(ctx)) : AllMessages(ctx)[j].kind = kind}}

RemoveRouteSegment(deactivateFollowing) ==
  \E segmentId \in SegmentIds(ResourceUploadThread, "AddRouteSegmentMessage") :
    PostOnly([Call("RemoveRouteSegment") EXCEPT !.num = segmentId, !.flag = deactivateFollowing],
             RemoveRouteSegmentPosts(segmentId, deactivateFollowing))

\* DrapeEngine::SetRouteSegmentVisibility, for an id AddRouteSegment returned.
SetRouteSegmentVisibility(isVisible) ==
  \E segmentId \in SegmentIds(ResourceUploadThread, "AddRouteSegmentMessage") :
    PostOnly([Call("SetRouteSegmentVisibility") EXCEPT !.num = segmentId, !.flag = isVisible],
             <<[Message(RenderThread, "SetRouteSegmentVisibilityMessage", Normal)
                 EXCEPT !.num = segmentId, !.flag = isVisible]>>)

\* The messages of DrapeEngine::Allow3dMode, in post order.
Allow3dModePosts(allowPerspectiveInNavigation, allow3dBuildings) ==
  <<[Message(ResourceUploadThread, "Allow3dBuildingsMessage", Normal)
       EXCEPT !.flag = allow3dBuildings],
    [Message(RenderThread, "Allow3dModeMessage", Normal)
       EXCEPT !.flag = allowPerspectiveInNavigation, !.flag2 = allow3dBuildings]>>

Allow3dMode(allowPerspectiveInNavigation, allow3dBuildings) ==
  PostOnly([Call("Allow3dMode") EXCEPT !.flag = allowPerspectiveInNavigation],
           Allow3dModePosts(allowPerspectiveInNavigation, allow3dBuildings))

RemoveRoutePreviewSegment ==
  \E segmentId \in SegmentIds(RenderThread, "AddRoutePreviewSegmentMessage") :
    PostOnly([Call("RemoveRoutePreviewSegment") EXCEPT !.num = segmentId],
             <<[Message(RenderThread, "RemoveRoutePreviewSegmentMessage", Normal)
                 EXCEPT !.num = segmentId]>>)

\* RemoveRoutePreviewSegmentMessage() without an id removes every segment.
RemoveAllRoutePreviewSegments ==
  PostOnly(Call("RemoveAllRoutePreviewSegments"),
           <<[Message(RenderThread, "RemoveRoutePreviewSegmentMessage", Normal)
               EXCEPT !.tag = "all"]>>)

\* Map files whose custom symbols are added and removed.
MwmIds == {1, 2}

AddCustomSymbols(mwmId) ==
  PostOnly([Call("AddCustomSymbols") EXCEPT !.num = mwmId],
           <<[Message(ResourceUploadThread, "AddCustomSymbolsMessage", Normal)
               EXCEPT !.num = mwmId]>>)

RemoveCustomSymbols(mwmId) ==
  PostOnly([Call("RemoveCustomSymbols") EXCEPT !.num = mwmId],
           <<[Message(ResourceUploadThread, "RemoveCustomSymbolsMessage", Normal)
               EXCEPT !.num = mwmId]>>)

RemoveAllCustomSymbols ==
  PostOnly(Call("RemoveAllCustomSymbols"),
           <<[Message(ResourceUploadThread, "RemoveCustomSymbolsMessage", Normal)
               EXCEPT !.tag = "all"]>>)

\* Road segments a traffic coloring may colour; every segment of a coloring
\* has a known speed group (the debug build asserts it).
TrafficSegments == {"s1", "s2"}

\* Faulty variant: the message is posted for an empty coloring as well.
UpdateTrafficPosts_Always(coloring) ==
  <<[Message(ResourceUploadThread, "UpdateTrafficMessage", Normal)
      EXCEPT !.num = Cardinality(coloring)]>>

\* The messages of DrapeEngine::UpdateTraffic: none for an empty coloring,
\* else one that carries the coloring (its size is kept).
UpdateTrafficPosts(coloring) ==
  IF coloring = {} THEN <<>>
  ELSE <<[Message(ResourceUploadThread, "UpdateTrafficMessage", Normal)
           EXCEPT !.num = Cardinality(coloring)]>>

UpdateTraffic ==
  \E coloring \in SUBSET TrafficSegments :
    PostOnly([Call("UpdateTraffic") EXCEPT !.num = Cardinality(coloring)],
             UpdateTrafficPosts(coloring))

ClearTrafficCache(mwmId) ==
  PostOnly([Call("ClearTrafficCache") EXCEPT !.num = mwmId],
           <<[Message(ResourceUploadThread, "ClearTrafficDataMessage", Normal)
               EXCEPT !.num = mwmId]>>)

----------------------------------------------------------------------------
(* DrapeEngine::SetRenderingEnabled and SetRenderingDisabled.               *)

\* The renderers in the order SetRenderingEnabled calls them: m_backend,
\* which runs the ResourceUploadThread, then m_frontend.
EnableOrder == <<ResourceUploadThread, RenderThread>>

\* Faulty variant: SetRenderingDisabled calls m_backend first.
DisableOrder_BackendFirst == <<ResourceUploadThread, RenderThread>>

\* The renderers in the order SetRenderingDisabled calls them.
DisableOrder == <<RenderThread, ResourceUploadThread>>

\* The first statement of either operation; the host makes these calls one
\* at a time.
SetRenderingFirst(enabled, order) ==
  /\ Running
  /\ rcall = "none"
  /\ renderingEnabled' = [renderingEnabled EXCEPT ![order[1]] = enabled]
  /\ rcall' = IF enabled THEN "enabling" ELSE "disabling"
  /\ UNCHANGED <<facadeVars, idVars, msgVars, workerVars, callerVars, dtorVars, histVars>>

\* The second statement; the operation returns.
SetRenderingSecond(enabled, order) ==
  /\ rcall = (IF enabled THEN "enabling" ELSE "disabling")
  /\ renderingEnabled' = [renderingEnabled EXCEPT ![order[2]] = enabled]
  /\ rcall' = "none"
  /\ UNCHANGED <<facadeVars, idVars, msgVars, workerVars, callerVars, dtorVars, histVars>>

\* m_backend->SetRenderingEnabled(contextFactory);
SetRenderingEnabled == SetRenderingFirst(TRUE, EnableOrder)

\* m_frontend->SetRenderingEnabled(contextFactory);
SetRenderingEnabledReturn == SetRenderingSecond(TRUE, EnableOrder)

\* m_frontend->SetRenderingDisabled(destroyContext);
SetRenderingDisabled == SetRenderingFirst(FALSE, DisableOrder)

\* m_backend->SetRenderingDisabled(destroyContext);
SetRenderingDisabledReturn == SetRenderingSecond(FALSE, DisableOrder)

----------------------------------------------------------------------------
(* DrapeEngine::~DrapeEngine, statement by statement.                       *)

\* Faulty variant: Teardown() returns as soon as the stop is requested.
TeardownReturned_Requested(ctx) == stopRequested[ctx]

\* BaseRenderer::Teardown returns when the renderer's thread has ended.
TeardownReturned(ctx) == wstate[ctx] = "stopped"

\* Faulty variant: the destructor begins while a call is in progress.
DtorTeardownFrontend_Unserialized ==
  /\ dtor = "none"
  /\ dtor' = "frontendTeardown"
  /\ stopRequested' = [stopRequested EXCEPT ![RenderThread] = TRUE]
  /\ UNCHANGED <<commutatorAlive, renderersAlive, guiAlive, textureReleased>>
  /\ UNCHANGED <<wstate, current, processed>>
  /\ UNCHANGED <<facadeVars, idVars, msgVars, callerVars, histVars, renderVars>>

\* m_frontend->Teardown() is called.  The host serialises the calls into the
\* engine, so no other call is in progress when the destructor runs.
DtorTeardownFrontend ==
  /\ dtor = "none"
  /\ \A c \in Callers : cpc[c] = "idle"
  /\ dtor' = "frontendTeardown"
  /\ stopRequested' = [stopRequested EXCEPT ![RenderThread] = TRUE]
  /\ UNCHANGED <<commutatorAlive, renderersAlive, guiAlive, textureReleased>>
  /\ UNCHANGED <<wstate, current, processed>>
  /\ UNCHANGED <<facadeVars, idVars, msgVars, callerVars, histVars, renderVars>>

\* Faulty variant: m_frontend->Teardown() is left out; the destructor goes on at once.
DtorTeardownBackend_NoWait ==
  /\ dtor = "frontendTeardown"
  /\ dtor' = "backendTeardown"
  /\ stopRequested' = [stopRequested EXCEPT ![ResourceUploadThread] = TRUE]
  /\ UNCHANGED <<commutatorAlive, renderersAlive, guiAlive, textureReleased>>
  /\ UNCHANGED <<wstate, current, processed>>
  /\ UNCHANGED <<facadeVars, idVars, msgVars, callerVars, histVars, renderVars>>

\* m_frontend->Teardown() has returned; m_backend->Teardown() is called.
DtorTeardownBackend ==
  /\ dtor = "frontendTeardown"
  /\ TeardownReturned(RenderThread)
  /\ dtor' = "backendTeardown"
  /\ stopRequested' = [stopRequested EXCEPT ![ResourceUploadThread] = TRUE]
  /\ UNCHANGED <<commutatorAlive, renderersAlive, guiAlive, textureReleased>>
  /\ UNCHANGED <<wstate, current, processed>>
  /\ UNCHANGED <<facadeVars, idVars, msgVars, callerVars, histVars, renderVars>>

\* Faulty variant: the commutator is reset before m_backend->Teardown().
DtorResetCommutator_Early ==
  /\ dtor = "frontendTeardown"
  /\ TeardownReturned(RenderThread)
  /\ commutatorAlive' = FALSE
  /\ UNCHANGED <<dtor, renderersAlive, guiAlive, textureReleased>>
  /\ UNCHANGED <<facadeVars, idVars, msgVars, workerVars, callerVars, histVars, renderVars>>

\* m_backend->Teardown() has returned; m_threadCommutator.reset();
DtorResetCommutator ==
  /\ dtor = "backendTeardown"
  /\ TeardownReturned(ResourceUploadThread)
  /\ dtor' = "commutatorReset"
  /\ commutatorAlive' = FALSE
  /\ UNCHANGED <<renderersAlive, guiAlive, textureReleased>>
  /\ UNCHANGED <<facadeVars, idVars, msgVars, workerVars, callerVars, histVars, renderVars>>

\* m_frontend.reset(); m_backend.reset();
DtorResetRenderers ==
  /\ dtor = "commutatorReset"
  /\ dtor' = "renderersReset"
  /\ renderersAlive' = FALSE
  /\ UNCHANGED <<commutatorAlive, guiAlive, textureReleased>>
  /\ UNCHANGED <<facadeVars, idVars, msgVars, workerVars, callerVars, histVars, renderVars>>

\* Faulty variant: the gui is destroyed before the commutator is reset.
DtorDestroyGui_Early ==
  /\ dtor = "backendTeardown"
  /\ guiAlive
  /\ guiAlive' = FALSE
  /\ UNCHANGED <<dtor, commutatorAlive, renderersAlive, textureReleased>>
  /\ UNCHANGED <<facadeVars, idVars, msgVars, workerVars, callerVars, histVars, renderVars>>

\* gui::DrapeGui::Instance().Destroy();
DtorDestroyGui ==
  /\ dtor = "renderersReset"
  /\ dtor' = "guiDestroyed"
  /\ guiAlive' = FALSE
  /\ UNCHANGED <<commutatorAlive, renderersAlive, textureReleased>>
  /\ UNCHANGED <<facadeVars, idVars, msgVars, workerVars, callerVars, histVars, renderVars>>

\* m_textureManager->Release();
DtorReleaseTextures ==
  /\ dtor = "guiDestroyed"
  /\ dtor' = "done"
  /\ textureReleased' = TRUE
  /\ UNCHANGED <<commutatorAlive, renderersAlive, guiAlive>>
  /\ UNCHANGED <<facadeVars, idVars, msgVars, workerVars, callerVars, histVars, renderVars>>

Destructor ==
  \/ DtorTeardownFrontend
  \/ DtorTeardownBackend
  \/ DtorResetCommutator
  \/ DtorResetRenderers
  \/ DtorDestroyGui
  \/ DtorReleaseTextures

----------------------------------------------------------------------------
(* Specifications. *)

\* The whole engine.
Next ==
  \/ Resize
  \/ Update
  \/ SetVisibleViewport
  \/ Invalidate
  \/ UpdateUserMarksLayer
  \/ EnableChoosePositionMode
  \/ SetKineticScrollEnabled
  \/ SetFontScaleFactor
  \/ \E deactivateFollowing \in BOOLEAN : RemoveRouteSegment(deactivateFollowing)
  \/ RemoveRoutePreviewSegment
  \/ RemoveAllRoutePreviewSegments
  \/ \E mwmId \in MwmIds : AddCustomSymbols(mwmId)
  \/ \E mwmId \in MwmIds : RemoveCustomSymbols(mwmId)
  \/ RemoveAllCustomSymbols
  \/ UpdateTraffic
  \/ \E mwmId \in MwmIds : ClearTrafficCache(mwmId)
  \/ \E isVisible \in BOOLEAN : SetRouteSegmentVisibility(isVisible)
  \/ \E a \in BOOLEAN, b \in BOOLEAN : Allow3dMode(a, b)
  \/ StopLocationFollow
  \/ SetRenderingEnabled
  \/ SetRenderingEnabledReturn
  \/ SetRenderingDisabled
  \/ SetRenderingDisabledReturn
  \/ \E ctx \in ThreadName, prio \in MessagePriority : RendererPost(ctx, prio)
  \/ \E c \in Callers : UpdateMapStyle(c)
  \/ \E c \in Callers : GetVisiblePOI(c)
  \/ \E c \in Callers : GetSelectedObject(c)
  \/ \E c \in Callers : GetMyPosition(c)
  \/ \E c \in Callers : WaitReturn(c)
  \/ \E c \in Callers : AddRouteSegment(c)
  \/ \E c \in Callers : AddRoutePreviewSegment(c)
  \/ \E c \in Callers : GenLock(c)
  \/ \E c \in Callers : GenIncrement(c)
  \/ \E c \in Callers : GenReturn(c)
  \/ \E c \in Callers : PostCreation(c)
  \/ \E ctx \in ThreadName : Dequeue(ctx)
  \/ \E ctx \in ThreadName : Finish(ctx)
  \/ \E ctx \in ThreadName : StopThread(ctx)
  \/ RenderFrame
  \/ Destructor

Spec == Init /\ [][Next]_vars

\* Posting and draining: the commutator, the queues and the renderer loops.
\* New messages go to the RenderThread at every priority; the
\* ResourceUploadThread drains what the constructor posted.
InitChoose == Ctor(1, 1, 10, TRUE)

NextQueue ==
  \/ SetVisibleViewport
  \/ Invalidate
  \/ \E prio \in MessagePriority : RendererPost(RenderThread, prio)
  \/ \E ctx \in ThreadName : Dequeue(ctx)
  \/ \E ctx \in ThreadName : Finish(ctx)

SpecQueue == InitChoose /\ [][NextQueue]_vars

\* Blocking calls against a stream of posts, with the RenderThread scheduled
\* fairly and a signaled Wait() returning.
NextBlocking ==
  \/ SetVisibleViewport
  \/ UpdateMapStyle("c1")
  \/ GetVisiblePOI("c1")
  \/ GetSelectedObject("c2")
  \/ GetMyPosition("c2")
  \/ \E c \in Callers : WaitReturn(c)
  \/ Dequeue(RenderThread)
  \/ Finish(RenderThread)

SpecBlocking ==
  /\ InitChoose
  /\ [][NextBlocking]_vars
  /\ WF_vars(Dequeue(RenderThread))
  /\ WF_vars(Finish(RenderThread))
  /\ \A c \in Callers : WF_vars(WaitReturn(c))

\* Concurrent callers of GenerateDrapeID.
InitPlain == Ctor(1, 1, 10, FALSE)

NextIds ==
  \/ \E c \in Callers : AddRouteSegment(c)
  \/ \E c \in Callers : AddRoutePreviewSegment(c)
  \/ \E c \in Callers : GenLock(c)
  \/ \E c \in Callers : GenIncrement(c)
  \/ \E c \in Callers : GenReturn(c)
  \/ \E c \in Callers : PostCreation(c)
  \/ \E ctx \in ThreadName : Dequeue(ctx)
  \/ \E ctx \in ThreadName : Finish(ctx)

SpecIds == InitPlain /\ [][NextIds]_vars

\* The viewport and the font scale.
InitView ==
  \E w \in Dims, h \in Dims, showChoosePositionMark \in BOOLEAN :
    Ctor(w, h, 10, showChoosePositionMark)

NextView ==
  \/ Resize
  \/ Update
  \/ RenderFrame

SpecView == InitView /\ [][NextView]_vars

InitFont == \E fontsScaleFactor \in {10, 30} : Ctor(1, 1, fontsScaleFactor, FALSE)

NextFont ==
  \/ SetFontScaleFactor
  \/ Resize
  \/ RenderFrame

SpecFont == InitFont /\ [][NextFont]_vars

\* Choose-position mode and kinetic scrolling.
InitMode == \E showChoosePositionMark \in BOOLEAN : Ctor(1, 1, 10, showChoosePositionMark)

NextMode ==
  \/ EnableChoosePositionMode
  \/ SetKineticScrollEnabled
  \/ Dequeue(RenderThread)
  \/ Finish(RenderThread)

SpecMode == InitMode /\ [][NextMode]_vars

\* Destruction with messages pending.
NextTeardown ==
  \/ Invalidate
  \/ UpdateUserMarksLayer
  \/ \E ctx \in ThreadName : Dequeue(ctx)
  \/ \E ctx \in ThreadName : Finish(ctx)
  \/ \E ctx \in ThreadName : StopThread(ctx)
  \/ Destructor

SpecTeardown == InitChoose /\ [][NextTeardown]_vars

\* Posting with renderers that need not make progress: only the callers'
\* own steps are scheduled fairly.  The RenderThread may run or stall at any
\* point; the ResourceUploadThread takes nothing at all.
NextPost ==
  \/ Invalidate
  \/ AddRouteSegment("c1")
  \/ \E c \in Callers : GenLock(c)
  \/ \E c \in Callers : GenIncrement(c)
  \/ \E c \in Callers : GenReturn(c)
  \/ \E c \in Callers : PostCreation(c)
  \/ Dequeue(RenderThread)
  \/ Finish(RenderThread)

SpecPost ==
  /\ InitChoose
  /\ [][NextPost]_vars
  /\ \A c \in Callers :
       /\ WF_vars(GenLock(c))
       /\ WF_vars(GenIncrement(c))
       /\ WF_vars(GenReturn(c))
       /\ WF_vars(PostCreation(c))

\* The engine's life: calls of every kind, then destruction.
NextLifecycle ==
  \/ Invalidate
  \/ SetKineticScrollEnabled
  \/ UpdateMapStyle("c1")
  \/ WaitReturn("c1")
  \/ \E ctx \in ThreadName : Dequeue(ctx)
  \/ \E ctx \in ThreadName : Finish(ctx)
  \/ \E ctx \in ThreadName : StopThread(ctx)
  \/ Destructor

SpecLifecycle == InitChoose /\ [][NextLifecycle]_vars

\* Creation and removal of route segments, preview segments and custom
\* symbols on a settled engine. A creation starts only while the post budget
\* has room, which keeps the number of messages finite.
NextRoutes ==
  \/ CanPost(1) /\ AddRouteSegment("c1")
  \/ CanPost(1) /\ AddRoutePreviewSegment("c1")
  \/ \E c \in Callers : GenLock(c)
  \/ \E c \in Callers : GenIncrement(c)
  \/ \E c \in Callers : GenReturn(c)
  \/ \E c \in Callers : PostCreation(c)
  \/ RemoveRouteSegment(TRUE)
  \/ RemoveRoutePreviewSegment
  \/ RemoveAllRoutePreviewSegments
  \/ AddCustomSymbols(1)
  \/ RemoveCustomSymbols(1)
  \/ RemoveAllCustomSymbols
  \/ \E ctx \in ThreadName : Dequeue(ctx)
  \/ \E ctx \in ThreadName : Finish(ctx)

InitSettled == CtorSettled(1, 1, 10, TRUE)

SpecRoutes == InitSettled /\ [][NextRoutes]_vars

\* Map style updates from two callers, with both renderers at work.
NextStyle ==
  \/ Invalidate
  \/ \E c \in Callers : UpdateMapStyle(c)
  \/ \E c \in Callers : WaitReturn(c)
  \/ \E ctx \in ThreadName : Dequeue(ctx)
  \/ \E ctx \in ThreadName : Finish(ctx)

SpecStyle == InitSettled /\ [][NextStyle]_vars

\* Traffic updates and cache clearing, with the ResourceUploadThread at work.
NextTraffic ==
  \/ UpdateTraffic
  \/ \E mwmId \in MwmIds : ClearTrafficCache(mwmId)
  \/ Dequeue(ResourceUploadThread)
  \/ Finish(ResourceUploadThread)

SpecTraffic == InitChoose /\ [][NextTraffic]_vars

\* The constructor's choice of position mode, over everything it can read.
InitStart ==
  \E in \in StartInputs :
    /\ CtorMembers(1, 1, 10, TRUE)
    /\ CtorMode(in)
    /\ queue = CtorQueue(TRUE)
    /\ processed = [ctx \in ThreadName |-> <<>>]

NextStart ==
  \/ StopLocationFollow
  \/ Dequeue(RenderThread)
  \/ Finish(RenderThread)

SpecStart == InitStart /\ [][NextStart]_vars

\* Operations whose messages go to both contexts, on a settled engine.
InitSettledPlain == CtorSettled(1, 1, 10, FALSE)

NextCross ==
  \/ Allow3dMode(TRUE, TRUE)
  \/ CanPost(1) /\ AddRouteSegment("c1")
  \/ \E c \in Callers : GenLock(c)
  \/ \E c \in Callers : GenIncrement(c)
  \/ \E c \in Callers : GenReturn(c)
  \/ \E c \in Callers : PostCreation(c)
  \/ SetRouteSegmentVisibility(FALSE)
  \/ \E ctx \in ThreadName : Dequeue(ctx)
  \/ \E ctx \in ThreadName : Finish(ctx)

SpecCross == InitSettledPlain /\ [][NextCross]_vars

\* Rendering switched on and off while messages are posted and executed.
NextRendering ==
  \/ SetRenderingEnabled
  \/ SetRenderingEnabledReturn
  \/ SetRenderingDisabled
  \/ SetRenderingDisabledReturn
  \/ Invalidate
  \/ Dequeue(RenderThread)
  \/ Finish(RenderThread)

SpecRendering == InitChoose /\ [][NextRendering]_vars

----------------------------------------------------------------------------
(* Properties. *)

\* C1 as stated: in the order a context processes its messages, every High
\* message comes before every Normal one and every Normal before every Low,
\* and messages of one priority keep their post order.
C1_GroupedByPriority ==
  \A ctx \in ThreadName :
    \A i \in 1..Len(processed[ctx]), j \in 1..Len(processed[ctx]) :
      i < j =>
        /\ Rank(processed[ctx][i].prio) >= Rank(processed[ctx][j].prio)
        /\ (processed[ctx][i].prio = processed[ctx][j].prio
              => processed[ctx][i].id < processed[ctx][j].id)

\* C1, amended: the ordering is among the messages that wait in the queue
\* together.  Whenever a context takes a message, it is one that was waiting,
\* no waiting message has a higher priority, and no waiting message of the
\* same priority was posted earlier; so a message is processed after one of
\* lower priority only if it was posted later, and messages of one priority
\* are processed in post order.
C1_TakesHighestOldest ==
  /\ [](\A ctx \in ThreadName :
          \A i \in 1..Len(processed[ctx]), j \in 1..Len(processed[ctx]) :
            i < j =>
              /\ (Rank(processed[ctx][i].prio) < Rank(processed[ctx][j].prio)
                    => processed[ctx][i].id < processed[ctx][j].id)
              /\ (processed[ctx][i].prio = processed[ctx][j].prio
                    => processed[ctx][i].id < processed[ctx][j].id))
  /\ [][\A ctx \in ThreadName :
          (wstate[ctx] = "idle" /\ wstate'[ctx] = "executing") =>
            /\ \E i \in 1..Len(PendingSeq(ctx)) : PendingSeq(ctx)[i] = current'[ctx]
            /\ \A i \in 1..Len(PendingSeq(ctx)) :
                 /\ Rank(PendingSeq(ctx)[i].prio) <= Rank(current'[ctx].prio)
                 /\ (PendingSeq(ctx)[i].prio = current'[ctx].prio
                       => PendingSeq(ctx)[i].id >= current'[ctx].id)]_vars

\* C1 witness: a context has processed a High, then a Normal, then a Low
\* message, where the Normal was posted first, the Low second and the High last.
C1_Witness ==
  \E ctx \in ThreadName :
    \E i \in 1..Len(processed[ctx]), j \in 1..Len(processed[ctx]), k \in 1..Len(processed[ctx]) :
      /\ i < j /\ j < k
      /\ processed[ctx][i].prio = High
      /\ processed[ctx][j].prio = Normal
      /\ processed[ctx][k].prio = Low
      /\ processed[ctx][j].id < processed[ctx][k].id
      /\ processed[ctx][k].id < processed[ctx][i].id

\* C2: a message is never taken before another message that was posted
\* earlier to the same queue with equal or higher priority, whether that
\* other message has been taken since or still waits.
C2_NoOvertaking ==
  \A ctx \in ThreadName :
    /\ \A i \in 1..Len(Taken(ctx)), j \in 1..Len(Taken(ctx)) :
         i < j =>
           ~(/\ Taken(ctx)[j].id < Taken(ctx)[i].id
             /\ Rank(Taken(ctx)[j].prio) >= Rank(Taken(ctx)[i].prio))
    /\ \A i \in 1..Len(Taken(ctx)), j \in 1..Len(PendingSeq(ctx)) :
           ~(/\ PendingSeq(ctx)[j].id < Taken(ctx)[i].id
             /\ Rank(PendingSeq(ctx)[j].prio) >= Rank(Taken(ctx)[i].prio))

\* C2 witness: two messages of one priority posted after construction have
\* been taken in post order, and a message posted before both, of lower
\* priority, still waits.
C2_Witness ==
  \E ctx \in ThreadName :
    \E i \in 1..Len(Taken(ctx)), j \in 1..Len(Taken(ctx)), k \in 1..Len(PendingSeq(ctx)) :
      /\ i < j
      /\ Taken(ctx)[i].prio = Taken(ctx)[j].prio
      /\ Taken(ctx)[i].id < Taken(ctx)[j].id
      /\ PendingSeq(ctx)[k].id < Taken(ctx)[i].id
      /\ PendingSeq(ctx)[k].id >= Len(CtorPosts(TRUE, TRUE)) + 1
      /\ Rank(PendingSeq(ctx)[k].prio) < Rank(Taken(ctx)[i].prio)

\* C3: every completed GenerateDrapeID call returned a value greater than
\* every value returned by a call that had completed when it began, no two
\* calls returned the same value, and each caller saw its values increase.
C3_UniqueIncreasingIds ==
  /\ \A i \in 1..Len(returned) : \A v \in returned[i].seen : returned[i].value > v
  /\ \A i \in 1..Len(returned), j \in 1..Len(returned) :
       i # j => returned[i].value # returned[j].value
  /\ \A i \in 1..Len(returned), j \in 1..Len(returned) :
       (i < j /\ returned[i].caller = returned[j].caller)
         => returned[i].value < returned[j].value

\* C3 witness: MaxIds calls have completed, by two callers, and one of them
\* began before a call of the other caller had completed (they overlapped).
C3_Witness ==
  /\ Len(returned) = MaxIds
  /\ \E i \in 1..Len(returned), j \in 1..Len(returned) :
       /\ i < j
       /\ returned[i].caller # returned[j].caller
       /\ returned[i].value \notin returned[j].seen

\* C4: while a caller waits in a blocking call, the RenderThread has taken
\* at most as many other messages since the post as there were High messages
\* waiting when the blocking message was posted, whatever the Normal and Low
\* backlog; and under fair scheduling every blocking call returns.
C4_BlockingCallBounded ==
  /\ [](\A c \in Callers : cpc[c] = "wait" => takenSince[c] <= highAhead[c])
  /\ \A c \in Callers : (cpc[c] = "wait") ~> (cpc[c] = "idle")

\* C4 witness: a blocking call has been signaled after exactly the High
\* messages ahead of it were taken (at least one), while a Normal message
\* posted before the blocking message still waits in the RenderThread's queue.
C4_Witness ==
  \E c \in Callers :
    /\ cpc[c] = "wait"
    /\ blocker[c] = "signaled"
    /\ highAhead[c] >= 1
    /\ takenSince[c] = highAhead[c]
    /\ \E i \in 1..Len(queue[RenderThread][Normal]) :
         /\ Len(processed[RenderThread]) >= 1
         /\ queue[RenderThread][Normal][i].id
              < processed[RenderThread][Len(processed[RenderThread])].id

\* C5: Resize(w, h) with the current width and height adds no event, posts
\* no message and leaves the facade state as it was; with a different width
\* or height it adds exactly one ResizeEvent(w, h), posts no message and sets
\* the viewport to (0, 0, w, h).  Either way the viewport then has the
\* requested size, so the same call repeated adds nothing.
C5_ResizeIdempotent ==
  lastCall.op = "Resize" =>
    /\ lastPosted = <<>>
    /\ m_viewport.w = lastCall.w /\ m_viewport.h = lastCall.h
    /\ IF lastCall.pre.viewport.w = lastCall.w /\ lastCall.pre.viewport.h = lastCall.h
       THEN lastEvents = <<>> /\ Facade = lastCall.pre
       ELSE /\ lastEvents = <<[kind |-> "ResizeEvent", w |-> lastCall.w, h |-> lastCall.h]>>
            /\ m_viewport = [x0 |-> 0, y0 |-> 0, w |-> lastCall.w, h |-> lastCall.h]

\* C5 witness: a Resize that changed the height only has added its event.
C5_Witness ==
  /\ lastCall.op = "Resize"
  /\ lastCall.pre.viewport.w = lastCall.w
  /\ lastCall.pre.viewport.h # lastCall.h
  /\ Len(lastEvents) = 1
  /\ m_viewport.h = lastCall.h

\* C6: the commutator is released only after both renderers have stopped,
\* and the texture manager is released only after the commutator.
C6_TeardownOrder ==
  /\ ~commutatorAlive =>
       wstate[RenderThread] = "stopped" /\ wstate[ResourceUploadThread] = "stopped"
  /\ textureReleased => ~commutatorAlive

\* C6 witness: the destructor has released the texture manager with messages
\* still waiting in both queues.
C6_Witness ==
  /\ textureReleased
  /\ QueueSize(queue[RenderThread]) > 0
  /\ QueueSize(queue[ResourceUploadThread]) > 0

\* C7: once a Teardown() call has returned, that renderer's thread has
\* stopped with no message left in execution; and a stopped renderer stays
\* stopped and executes nothing more, whatever waits in its queue.
C7_TeardownFinal ==
  /\ [](/\ dtor \notin {"none", "frontendTeardown"} => wstate[RenderThread] = "stopped"
        /\ dtor \notin {"none", "frontendTeardown", "backendTeardown"}
             => wstate[ResourceUploadThread] = "stopped"
        /\ \A ctx \in ThreadName : wstate[ctx] = "stopped" => current[ctx] = NoMsg)
  /\ [][\A ctx \in ThreadName :
          wstate[ctx] = "stopped" =>
            /\ wstate'[ctx] = "stopped"
            /\ processed'[ctx] = processed[ctx]
            /\ current'[ctx] = NoMsg]_vars

\* C7 witness: both renderers have stopped, each after executing a message,
\* and each with messages left waiting in its queue.
C7_Witness ==
  /\ dtor = "done"
  /\ \A ctx \in ThreadName :
       /\ wstate[ctx] = "stopped"
       /\ processed[ctx] # <<>>
       /\ QueueSize(queue[ctx]) > 0

\* C8 as stated: when the gui singleton is destroyed, both renderers have
\* stopped, the commutator has been released and the texture manager has
\* been released.
C8_GuiDestroyedLast ==
  ~guiAlive =>
    /\ wstate[RenderThread] = "stopped" /\ wstate[ResourceUploadThread] = "stopped"
    /\ ~commutatorAlive
    /\ textureReleased

\* C8, amended: the gui singleton is destroyed after both renderers have
\* stopped, after the commutator has been released and after the renderers
\* have been reset, and before the texture manager is released, which is the
\* destructor's last statement.
C8_GuiDestroyedBeforeTextures ==
  /\ ~guiAlive =>
       /\ wstate[RenderThread] = "stopped" /\ wstate[ResourceUploadThread] = "stopped"
       /\ ~commutatorAlive
       /\ ~renderersAlive
  /\ textureReleased => ~guiAlive

\* C8 witness: the gui singleton is destroyed and the texture manager is not
\* yet released.
C8_Witness == ~guiAlive /\ ~textureReleased /\ dtor = "guiDestroyed"

\* C9: EnableChoosePositionMode posts, last, one SetAddNewPlaceModeMessage to
\* the RenderThread; entering, it carries kinetic scroll off whatever the
\* flag; leaving, it carries the flag's value at that moment; the flag itself
\* is as before the call.
C9_ChoosePositionKinetic ==
  lastCall.op = "EnableChoosePositionMode" =>
    /\ lastPosted # <<>>
    /\ \A i \in 1..Len(lastPosted) :
         lastPosted[i].kind = "SetAddNewPlaceModeMessage" <=> i = Len(lastPosted)
    /\ lastPosted[Len(lastPosted)].ctx = RenderThread
    /\ lastPosted[Len(lastPosted)].flag = lastCall.flag
    /\ (lastCall.flag => lastPosted[Len(lastPosted)].flag2 = FALSE)
    /\ (~lastCall.flag => lastPosted[Len(lastPosted)].flag2 = lastCall.pre.kinetic)
    /\ m_kineticScrollEnabled = lastCall.pre.kinetic
    /\ m_choosePositionMode = lastCall.flag

\* Whether a SetKineticScrollEnabledMessage was ever posted.
KineticMessagePosted ==
  \E i \in 1..Len(PendingSeq(RenderThread) \o Taken(RenderThread)) :
    (PendingSeq(RenderThread) \o Taken(RenderThread))[i].kind = "SetKineticScrollEnabledMessage"

\* C9 witness: the mode has been left with the flag off, and the flag was
\* only ever set while the mode was active (no kinetic scroll message was
\* posted); the mode-set message carries kinetic scroll off.
C9_Witness ==
  /\ lastCall.op = "EnableChoosePositionMode"
  /\ ~lastCall.flag
  /\ lastCall.pre.choose
  /\ ~lastCall.pre.kinetic
  /\ ~KineticMessagePosted
  /\ ~lastPosted[Len(lastPosted)].flag2

\* C10: SetFontScaleFactor(x) applies 2.0 for x above 2.0, 0.5 for x below
\* 0.5 and x itself otherwise; the applied value is within [0.5, 2.0].
\* (Tenths: 5 is 0.5, 20 is 2.0.)
C10_FontScaleClamped ==
  lastCall.op = "SetFontScaleFactor" =>
    /\ (lastCall.num > 20 => fontScale = 20)
    /\ (lastCall.num < 5 => fontScale = 5)
    /\ (lastCall.num >= 5 /\ lastCall.num <= 20 => fontScale = lastCall.num)
    /\ fontScale >= 5 /\ fontScale <= 20

\* C10 witness: a request of 5.0 on an engine constructed with font scale
\* 3.0 has applied 2.0.
C10_Witness ==
  /\ lastCall.op = "SetFontScaleFactor"
  /\ lastCall.num = 50
  /\ lastCall.pre.fontScale = 30
  /\ fontScale = 20

BlockingKinds == {"UpdateMapStyleMessage", "FindVisiblePOIMessage",
                  "GetSelectedObjectMessage", "GetMyPositionMessage"}

\* C11: a message of one of the four blocking classes always carries a
\* Blocker, is in the RenderThread's queue and has High priority, and no
\* other message carries a Blocker; and whenever a caller is inside Wait(),
\* the message carrying its Blocker has already been posted (it waits in the
\* queue or has been taken).
C11_BlockingPostedHigh ==
  /\ \A ctx \in ThreadName :
       \A i \in 1..Len(AllMessages(ctx)) :
         (AllMessages(ctx)[i].kind \in BlockingKinds \/ AllMessages(ctx)[i].blocker # "none")
           => /\ AllMessages(ctx)[i].kind \in BlockingKinds
              /\ AllMessages(ctx)[i].blocker \in Callers
              /\ AllMessages(ctx)[i].prio = High
              /\ ctx = RenderThread
  /\ \A c \in Callers :
       cpc[c] = "wait" =>
         \E i \in 1..Len(AllMessages(RenderThread)) :
           /\ AllMessages(RenderThread)[i].id = blockers[LiveBlocker(c)].id
           /\ AllMessages(RenderThread)[i].blocker = c
           /\ AllMessages(RenderThread)[i].prio = High

\* C11 witness: two callers are inside Wait() at once, both blocking
\* messages wait in the RenderThread's High lane and a Normal message posted
\* before them waits too.
C11_Witness ==
  /\ \A c \in Callers : cpc[c] = "wait" /\ blocker[c] = "armed"
  /\ \A c \in Callers :
       \E i \in 1..Len(queue[RenderThread][High]) : queue[RenderThread][High][i].blocker = c
  /\ \E i \in 1..Len(queue[RenderThread][Normal]) :
       queue[RenderThread][Normal][i].id < blockers[1].id

\* The ids of the messages a context has executed to the end.
ProcessedIds(ctx) == {processed[ctx][i].id : i \in 1..Len(processed[ctx])}

\* C12: every Blocker is signaled at most once and its result written at
\* most once; it is signaled only when its message has been executed, with
\* the result (where the message has one) written, to the answer to that
\* very request; Wait() has returned only on a signaled Blocker and the
\* caller has then read what the renderer wrote; every Blocker is carried by
\* exactly one message, posted by the caller that waits on it, and a caller
\* has at most one Blocker whose Wait() has not returned.  Under fair
\* scheduling every Blocker waited on is signaled.
C12_BlockerProtocol ==
  /\ [](\A i \in 1..Len(blockers) :
          /\ blockers[i].signals <= 1
          /\ blockers[i].writes <= 1
          /\ blockers[i].signals = 1 <=> blockers[i].id \in ProcessedIds(RenderThread)
          /\ blockers[i].signals = 1 =>
               (HasResult(blockers[i].kind)
                  => blockers[i].writes = 1 /\ blockers[i].slot = blockers[i].id)
          /\ blockers[i].signals = 0 => blockers[i].writes = 0
          /\ blockers[i].waited =>
               /\ blockers[i].signals = 1
               /\ HasResult(blockers[i].kind) => blockers[i].read = blockers[i].id
          /\ ~blockers[i].waited =>
               /\ cpc[blockers[i].caller] = "wait"
               /\ blocker[blockers[i].caller] = "signaled" <=> blockers[i].signals = 1
          /\ Cardinality({j \in 1..Len(AllMessages(RenderThread)) :
                            AllMessages(RenderThread)[j].id = blockers[i].id}) = 1
          /\ \A j \in 1..Len(AllMessages(RenderThread)) :
               AllMessages(RenderThread)[j].id = blockers[i].id
                 => AllMessages(RenderThread)[j].blocker = blockers[i].caller
          /\ \A j \in 1..Len(blockers) :
               j # i =>
                 /\ blockers[j].id # blockers[i].id
                 /\ ~(/\ blockers[j].caller = blockers[i].caller
                      /\ ~blockers[j].waited /\ ~blockers[i].waited))
  /\ \A c \in Callers : (blocker[c] = "armed") ~> (blocker[c] = "signaled")

\* C12 witness: one caller has completed two blocking calls that return a
\* result, each on its own Blocker, and read two different answers, while
\* the other caller waits on a third Blocker that is not yet signaled.
C12_Witness ==
  \E i \in 1..Len(blockers), j \in 1..Len(blockers), k \in 1..Len(blockers) :
    /\ i < j
    /\ blockers[i].caller = blockers[j].caller
    /\ blockers[i].waited /\ blockers[j].waited
    /\ HasResult(blockers[i].kind) /\ HasResult(blockers[j].kind)
    /\ blockers[i].read # blockers[j].read
    /\ blockers[k].caller # blockers[i].caller
    /\ blockers[k].signals = 0

\* The places where the message with a given post number is found: a context
\* and a position among that context's waiting and taken messages.
PlacesOf(id) ==
  {pl \in ThreadName \X (1..(nextId - 1)) :
     /\ pl[2] <= Len(AllMessages(pl[1]))
     /\ AllMessages(pl[1])[pl[2]].id = id}

\* C13 as stated: every posted message is in exactly one place, at the
\* context it was posted to, and is consumed: once a context has ended, no
\* message posted to it is left unconsumed.
C13_ConsumedExactlyOnce ==
  /\ \A id \in 1..(nextId - 1) :
       /\ Cardinality(PlacesOf(id)) = 1
       /\ \A pl \in PlacesOf(id) : AllMessages(pl[1])[pl[2]].ctx = pl[1]
  /\ \A ctx \in ThreadName : wstate[ctx] = "stopped" => QueueSize(queue[ctx]) = 0

\* C13, amended: every posted message is in exactly one place, at the
\* context it was posted to: waiting in its queue, in execution or executed,
\* never twice and never at the other context; and a message once taken
\* stays taken, in its position, so it is never queued again.  (A message
\* still waiting when its context stops is never consumed.)
C13_ConsumedAtMostOnce ==
  /\ [](\A id \in 1..(nextId - 1) :
          /\ Cardinality(PlacesOf(id)) = 1
          /\ \A pl \in PlacesOf(id) : AllMessages(pl[1])[pl[2]].ctx = pl[1])
  /\ [][\A ctx \in ThreadName :
          /\ Len(Taken(ctx)') >= Len(Taken(ctx))
          /\ SubSeq(Taken(ctx)', 1, Len(Taken(ctx))) = Taken(ctx)
          /\ Len(processed'[ctx]) >= Len(processed[ctx])
          /\ SubSeq(processed'[ctx], 1, Len(processed[ctx])) = processed[ctx]]_vars

\* C13 witness: the engine is destroyed; each context has executed messages
\* and at each a message posted after construction is left waiting.
C13_Witness ==
  /\ dtor = "done"
  /\ \A ctx \in ThreadName :
       /\ Len(processed[ctx]) >= 2
       /\ \E i \in 1..Len(PendingSeq(ctx)) :
            PendingSeq(ctx)[i].id > Len(CtorPosts(TRUE, TRUE))

Lifecycle ==
  IF dtor = "none" THEN "Running"
  ELSE IF dtor = "done" THEN "Destroyed"
  ELSE "TearingDown"

LifecycleRank(l) ==
  IF l = "Running" THEN 1 ELSE IF l = "TearingDown" THEN 2 ELSE 3

Supersedes(r, a) ==
  \/ /\ r.kind = "RemoveRouteSegmentMessage"
     /\ a.kind = "AddRouteSegmentMessage"
     /\ a.num = r.num
  \/ /\ r.kind = "RemoveRoutePreviewSegmentMessage"
     /\ a.kind = "AddRoutePreviewSegmentMessage"
     /\ (r.tag = "all" \/ a.num = r.num)
  \/ /\ r.kind = "RemoveCustomSymbolsMessage"
     /\ a.kind = "AddCustomSymbolsMessage"
     /\ (r.tag = "all" \/ a.num = r.num)

\* C17: a removal and a creation it supersedes are always at the same
\* context, the removal at a priority not lower than the creation's; and a
\* removal posted after the creation is never taken before it: when the
\* removal has been taken, the creation was taken earlier and does not wait
\* in the queue.
C17_RemovalAfterCreation ==
  /\ \A ctx1 \in ThreadName, ctx2 \in ThreadName :
       \A i \in 1..Len(AllMessages(ctx1)), j \in 1..Len(AllMessages(ctx2)) :
         Supersedes(AllMessages(ctx1)[i], AllMessages(ctx2)[j])
           => /\ ctx1 = ctx2
              /\ Rank(AllMessages(ctx1)[i].prio) >= Rank(AllMessages(ctx2)[j].prio)
  /\ \A ctx \in ThreadName :
       /\ \A i \in 1..Len(Taken(ctx)), j \in 1..Len(Taken(ctx)) :
            (i < j /\ Supersedes(Taken(ctx)[i], Taken(ctx)[j]))
              => Taken(ctx)[i].id < Taken(ctx)[j].id
       /\ \A i \in 1..Len(Taken(ctx)), j \in 1..Len(PendingSeq(ctx)) :
            Supersedes(Taken(ctx)[i], PendingSeq(ctx)[j])
              => Taken(ctx)[i].id < PendingSeq(ctx)[j].id

\* C17 witness: the ResourceUploadThread has executed the creation of a
\* route segment and, later, the removal of that segment, which was posted
\* after the creation; meanwhile the RenderThread has executed the creation
\* of a preview segment.
C17_Witness ==
  /\ \E i \in 1..Len(processed[ResourceUploadThread]),
        j \in 1..Len(processed[ResourceUploadThread]) :
       /\ i < j
       /\ processed[ResourceUploadThread][j].kind = "RemoveRouteSegmentMessage"
       /\ processed[ResourceUploadThread][i].id < processed[ResourceUploadThread][j].id
       /\ Supersedes(processed[ResourceUploadThread][j], processed[ResourceUploadThread][i])
  /\ \E i \in 1..Len(processed[RenderThread]) :
       processed[RenderThread][i].kind = "AddRoutePreviewSegmentMessage"

\* The Blockers of UpdateMapStyle calls.
StyleBlockers == {i \in 1..Len(blockers) : blockers[i].kind = "UpdateMapStyleMessage"}

\* The gui recache messages posted after the constructor's.
StyleRecaches ==
  {i \in 1..Len(AllMessages(ResourceUploadThread)) :
     /\ AllMessages(ResourceUploadThread)[i].kind = "GuiRecacheMessage"
     /\ AllMessages(ResourceUploadThread)[i].id > Len(CtorPosts(TRUE, TRUE))}

\* C18: the first part of UpdateMapStyle posts exactly one message, an
\* UpdateMapStyleMessage at High priority to the RenderThread, and each call
\* has exactly one such message; Wait() has returned only when the
\* RenderThread has executed that message and signaled; the part after
\* Wait() posts exactly one GuiRecacheMessage with needResetOldGui = false
\* at High priority to the ResourceUploadThread; and every such recache
\* message, waiting or taken, was posted after a style message that the
\* RenderThread had executed to the end, one recache per returned call.
C18_StyleThenGui ==
  /\ (lastCall.op = "UpdateMapStyle" /\ ~lastCall.flag) =>
       /\ Len(lastPosted) = 1
       /\ lastPosted[1].kind = "UpdateMapStyleMessage"
       /\ lastPosted[1].prio = High
       /\ lastPosted[1].ctx = RenderThread
  /\ (lastCall.op = "UpdateMapStyle" /\ lastCall.flag) =>
       /\ Len(lastPosted) = 1
       /\ lastPosted[1].kind = "GuiRecacheMessage"
       /\ lastPosted[1].flag = FALSE
       /\ lastPosted[1].prio = High
       /\ lastPosted[1].ctx = ResourceUploadThread
  /\ \A i \in StyleBlockers :
       /\ Cardinality(PlacesOf(blockers[i].id)) = 1
       /\ \A pl \in PlacesOf(blockers[i].id) :
            /\ pl[1] = RenderThread
            /\ AllMessages(pl[1])[pl[2]].kind = "UpdateMapStyleMessage"
       /\ blockers[i].waited =>
            /\ blockers[i].id \in ProcessedIds(RenderThread)
            /\ blockers[i].signals = 1
  /\ Cardinality({i \in 1..Len(AllMessages(RenderThread)) :
                    AllMessages(RenderThread)[i].kind = "UpdateMapStyleMessage"})
       = Cardinality(StyleBlockers)
  /\ Cardinality(StyleRecaches) = Cardinality({i \in StyleBlockers : blockers[i].waited})
  /\ \A i \in StyleRecaches :
       /\ AllMessages(ResourceUploadThread)[i].flag = FALSE
       /\ AllMessages(ResourceUploadThread)[i].prio = High
       /\ \E j \in StyleBlockers :
            /\ blockers[j].waited
            /\ blockers[j].id < AllMessages(ResourceUploadThread)[i].id
            /\ blockers[j].id \in ProcessedIds(RenderThread)

\* C18 witness: two callers have updated the map style; both calls have
\* returned, the ResourceUploadThread has executed the first call's gui
\* recache and the second call's recache waits in its queue.
C18_Witness ==
  /\ Cardinality({i \in StyleBlockers : blockers[i].waited}) = 2
  /\ \E i \in StyleRecaches :
       AllMessages(ResourceUploadThread)[i].id \in ProcessedIds(ResourceUploadThread)
  /\ \E i \in 1..Len(queue[ResourceUploadThread][High]) :
       queue[ResourceUploadThread][High][i].kind = "GuiRecacheMessage"

\* A step of the facade: it leaves a new record of the last call.
FacadeCalled == <<lastCall, lastPosted>>' # <<lastCall, lastPosted>>

\* C19: UpdateTraffic with an empty coloring posts nothing and leaves the
\* queues, the facade's members and everything else as they were; with a
\* non-empty coloring it posts exactly one UpdateTrafficMessage at Normal
\* priority to the ResourceUploadThread, appended to that lane, and changes
\* nothing else.
C19_UpdateTrafficEmptyNoop ==
  /\ [](lastCall.op = "UpdateTraffic" =>
          /\ Facade = lastCall.pre
          /\ lastCall.num = 0 => lastPosted = <<>>
          /\ lastCall.num > 0 =>
               /\ Len(lastPosted) = 1
               /\ lastPosted[1].kind = "UpdateTrafficMessage"
               /\ lastPosted[1].prio = Normal
               /\ lastPosted[1].ctx = ResourceUploadThread
               /\ lastPosted[1].num = lastCall.num)
  /\ [][(FacadeCalled /\ lastCall'.op = "UpdateTraffic" /\ lastCall'.num = 0)
          => UNCHANGED <<facadeVars, idVars, msgVars, workerVars, callerVars, dtorVars>>]_vars
  /\ [][(FacadeCalled /\ lastCall'.op = "UpdateTraffic" /\ lastCall'.num > 0)
          => /\ nextId' = nextId + 1
             /\ queue' = [queue EXCEPT ![ResourceUploadThread][Normal] =
                            Append(@, lastPosted'[1])]
             /\ lastPosted'[1].id = nextId
             /\ UNCHANGED <<facadeVars, idVars, userEvents, workerVars, callerVars, dtorVars>>]_vars

\* C19 witness: an UpdateTraffic with an empty coloring has just returned,
\* having posted nothing, after an earlier UpdateTraffic whose message the
\* ResourceUploadThread has executed.
C19_Witness ==
  /\ lastCall.op = "UpdateTraffic"
  /\ lastCall.num = 0
  /\ lastPosted = <<>>
  /\ \E i \in 1..Len(processed[ResourceUploadThread]) :
       /\ processed[ResourceUploadThread][i].kind = "UpdateTrafficMessage"
       /\ processed[ResourceUploadThread][i].num = Cardinality(TrafficSegments)

\* C20: SetKineticScrollEnabled(v) leaves v in m_kineticScrollEnabled and the
\* mode as it was; called in choose-position mode it posts nothing, to no
\* context; called outside the mode it posts exactly one
\* SetKineticScrollEnabledMessage carrying v, at High priority, to the
\* RenderThread.
C20_KineticScrollSuppressed ==
  /\ [](lastCall.op = "SetKineticScrollEnabled" =>
          /\ m_kineticScrollEnabled = lastCall.flag
          /\ m_choosePositionMode = lastCall.pre.choose
          /\ lastCall.pre.choose => lastPosted = <<>>
          /\ ~lastCall.pre.choose =>
               /\ Len(lastPosted) = 1
               /\ lastPosted[1].kind = "SetKineticScrollEnabledMessage"
               /\ lastPosted[1].flag = lastCall.flag
               /\ lastPosted[1].prio = High
               /\ lastPosted[1].ctx = RenderThread)
  /\ [][(FacadeCalled /\ lastCall'.op = "SetKineticScrollEnabled" /\ m_choosePositionMode)
          => UNCHANGED <<msgVars, workerVars>>]_vars
  /\ [][(FacadeCalled /\ lastCall'.op = "SetKineticScrollEnabled" /\ ~m_choosePositionMode)
          => /\ nextId' = nextId + 1
             /\ queue' = [queue EXCEPT ![RenderThread][High] = Append(@, lastPosted'[1])]]_vars

\* C20 witness: kinetic scrolling was switched on outside choose-position
\* mode, which posted the message, and has just been switched off inside the
\* mode, which posted nothing although the flag changed.
C20_Witness ==
  /\ lastCall.op = "SetKineticScrollEnabled"
  /\ lastCall.pre.choose
  /\ lastCall.pre.kinetic
  /\ ~lastCall.flag
  /\ ~m_kineticScrollEnabled
  /\ lastPosted = <<>>
  /\ \E i \in 1..Len(AllMessages(RenderThread)) :
       /\ AllMessages(RenderThread)[i].kind = "SetKineticScrollEnabledMessage"
       /\ AllMessages(RenderThread)[i].flag

\* The kinds of the messages in a sequence, in order.
KindsOf(posts) == [i \in 1..Len(posts) |-> posts[i].kind]

\* C21: EnableChoosePositionMode(true) posts, in this order, a
\* ChangeMyPositionModeMessage(StopFollowing) to the RenderThread, a
\* ShowChoosePositionMarkMessage to the ResourceUploadThread and a
\* SetAddNewPlaceModeMessage to the RenderThread, and nothing else;
\* EnableChoosePositionMode(false) posts a GuiRecacheMessage with
\* needResetOldGui = true to the ResourceUploadThread and then the
\* SetAddNewPlaceModeMessage, and nothing else; all are High, they are
\* posted one after the other, and the step appends them to their lanes in
\* that order.
C21_ChoosePositionPosts ==
  /\ [](lastCall.op = "EnableChoosePositionMode" =>
          /\ \A i \in 1..Len(lastPosted) :
               /\ lastPosted[i].prio = High
               /\ lastPosted[i].id = lastPosted[1].id + i - 1
          /\ lastCall.flag =>
               /\ KindsOf(lastPosted) = <<"ChangeMyPositionModeMessage",
                                          "ShowChoosePositionMarkMessage",
                                          "SetAddNewPlaceModeMessage">>
               /\ lastPosted[1].tag = "StopFollowing"
               /\ lastPosted[1].ctx = RenderThread
               /\ lastPosted[2].ctx = ResourceUploadThread
               /\ lastPosted[3].ctx = RenderThread
               /\ lastPosted[3].flag = TRUE
          /\ ~lastCall.flag =>
               /\ KindsOf(lastPosted) = <<"GuiRecacheMessage", "SetAddNewPlaceModeMessage">>
               /\ lastPosted[1].flag = TRUE
               /\ lastPosted[1].ctx = ResourceUploadThread
               /\ lastPosted[2].ctx = RenderThread
               /\ lastPosted[2].flag = FALSE)
  /\ [][(FacadeCalled /\ lastCall'.op = "EnableChoosePositionMode") =>
          /\ nextId' = nextId + Len(lastPosted')
          /\ lastPosted'[1].id = nextId
          /\ queue'[RenderThread][High] =
               queue[RenderThread][High]
                 \o SelectSeq(lastPosted', LAMBDA m : m.ctx = RenderThread)
          /\ queue'[ResourceUploadThread][High] =
               queue[ResourceUploadThread][High]
                 \o SelectSeq(lastPosted', LAMBDA m : m.ctx = ResourceUploadThread)
          /\ \A ctx \in ThreadName : \A p \in MessagePriority \ {High} :
               queue'[ctx][p] = queue[ctx][p]]_vars

\* C21 witness: the mode was entered and has just been left: the
\* RenderThread has executed the stop-following message and then the
\* mode-set message of the entering, the show-marker message waits at the
\* ResourceUploadThread, and the two messages of the leaving call are the
\* last ones posted.
C21_Witness ==
  /\ lastCall.op = "EnableChoosePositionMode"
  /\ ~lastCall.flag
  /\ lastCall.pre.choose
  /\ Len(lastPosted) = 2
  /\ \E i \in 1..Len(processed[RenderThread]), j \in 1..Len(processed[RenderThread]) :
       /\ i < j
       /\ processed[RenderThread][i].kind = "ChangeMyPositionModeMessage"
       /\ processed[RenderThread][j].kind = "SetAddNewPlaceModeMessage"
       /\ processed[RenderThread][j].flag
  /\ \E i \in 1..Len(queue[ResourceUploadThread][High]) :
       queue[ResourceUploadThread][High][i].kind = "ShowChoosePositionMarkMessage"

\* The mode the constructor starts from when it does not fall back to
\* PendingPosition: the supplied one if the flag says so, else the stored.
GivenMode == IF mpParams.in.second THEN mpParams.in.first ELSE mpParams.in.stored

\* C22: the mode chosen at construction is PendingPosition when no mode is
\* supplied and none is stored; otherwise the supplied or stored mode,
\* except that FollowAndRotate becomes Follow when the stored screen rect
\* is absent or not inside the world rect.  So the mode is FollowAndRotate
\* only with a stored rect inside the world rect, and every other given
\* mode is passed through.  No later call changes the choice.
C22_InitialPositionMode ==
  /\ []((~mpParams.in.second /\ mpParams.in.stored = Absent)
          => mpParams.mode = "PendingPosition")
  /\ []((mpParams.in.second \/ mpParams.in.stored # Absent) =>
          /\ GivenMode # "FollowAndRotate" => mpParams.mode = GivenMode
          /\ (GivenMode = "FollowAndRotate" /\ mpParams.in.rect = "inside")
               => mpParams.mode = "FollowAndRotate"
          /\ (GivenMode = "FollowAndRotate" /\ mpParams.in.rect # "inside")
               => mpParams.mode = "Follow")
  /\ [](mpParams.mode = "FollowAndRotate" => mpParams.in.rect = "inside")
  /\ [][mpParams' = mpParams]_vars

\* C22 witness: a stored FollowAndRotate with a stored rect outside the
\* world rect was downgraded to Follow, and the engine has since stopped
\* following the location.
C22_Witness ==
  /\ ~mpParams.in.second
  /\ mpParams.in.stored = "FollowAndRotate"
  /\ mpParams.in.rect = "outside"
  /\ mpParams.mode = "Follow"
  /\ lastCall.op = "StopLocationFollow"

\* The destructor is inside the Teardown() of the renderer of a context:
\* the call has been made and the thread has not ended yet.
InTeardownWait(ctx) == stopRequested[ctx] /\ wstate[ctx] # "stopped"

\* C23: Teardown() of the ResourceUploadThread's renderer has been called
\* only if that of the RenderThread's renderer was called before and has
\* returned, its thread stopped; the destructor never waits for both at
\* once; while it waits for the RenderThread, the ResourceUploadThread has
\* not been asked to stop and has not stopped; and the step that calls the
\* second Teardown() starts from a stopped RenderThread.
C23_RenderStoppedFirst ==
  /\ [](stopRequested[ResourceUploadThread] =>
          stopRequested[RenderThread] /\ wstate[RenderThread] = "stopped")
  /\ [](~(InTeardownWait(RenderThread) /\ InTeardownWait(ResourceUploadThread)))
  /\ [](InTeardownWait(RenderThread) =>
          /\ ~stopRequested[ResourceUploadThread]
          /\ wstate[ResourceUploadThread] # "stopped")
  /\ [][(~stopRequested[ResourceUploadThread] /\ stopRequested'[ResourceUploadThread])
          => (wstate[RenderThread] = "stopped" /\ dtor = "frontendTeardown")]_vars

\* C23 witness: the RenderThread has stopped, leaving messages waiting, and
\* the destructor waits in the second Teardown() while the
\* ResourceUploadThread is still executing a message.
C23_Witness ==
  /\ wstate[RenderThread] = "stopped"
  /\ QueueSize(queue[RenderThread]) > 0
  /\ InTeardownWait(ResourceUploadThread)
  /\ wstate[ResourceUploadThread] = "executing"

\* Message r, posted to the RenderThread, was posted by the facade after
\* message u, posted to the ResourceUploadThread, that it goes with: the
\* two messages of one Allow3dMode call, or the visibility of a route
\* segment and the creation of that segment.
PostedAfter(r, u) ==
  /\ u.id < r.id
  /\ \/ u.kind = "Allow3dBuildingsMessage" /\ r.kind = "Allow3dModeMessage" /\ r.id = u.id + 1
     \/ /\ u.kind = "AddRouteSegmentMessage"
        /\ r.kind = "SetRouteSegmentVisibilityMessage"
        /\ r.num = u.num

\* C24: the two contexts take their messages independently: a context that
\* is idle with a message waiting can take it whatever the other context
\* holds, waiting or in execution, older or newer, and taking it leaves the
\* other context's queue and renderer as they are.  Allow3dMode posts to the
\* ResourceUploadThread first and to the RenderThread second.
C24_NoCrossContextOrder ==
  /\ [](\A ctx \in ThreadName :
          (wstate[ctx] = "idle" /\ ~stopRequested[ctx] /\ QueueSize(queue[ctx]) > 0)
            => ENABLED Dequeue(ctx))
  /\ [](lastCall.op = "Allow3dMode" =>
          /\ KindsOf(lastPosted) = <<"Allow3dBuildingsMessage", "Allow3dModeMessage">>
          /\ lastPosted[1].ctx = ResourceUploadThread
          /\ lastPosted[2].ctx = RenderThread
          /\ lastPosted[2].id = lastPosted[1].id + 1)
  /\ [][\A ctx \in ThreadName :
          (wstate[ctx] = "idle" /\ wstate'[ctx] = "executing") =>
            \A other \in ThreadName \ {ctx} :
              /\ queue'[other] = queue[other]
              /\ wstate'[other] = wstate[other]
              /\ current'[other] = current[other]]_vars

\* C24 witness: the RenderThread has executed the Allow3dModeMessage of a
\* call and the visibility message of a route segment, while the
\* Allow3dBuildingsMessage of that call and the creation message of that
\* segment, both posted earlier, still wait at the ResourceUploadThread.
C24_Witness ==
  /\ \E i \in 1..Len(processed[RenderThread]), j \in 1..Len(PendingSeq(ResourceUploadThread)) :
       /\ processed[RenderThread][i].kind = "Allow3dModeMessage"
       /\ PostedAfter(processed[RenderThread][i], PendingSeq(ResourceUploadThread)[j])
  /\ \E i \in 1..Len(processed[RenderThread]), j \in 1..Len(PendingSeq(ResourceUploadThread)) :
       /\ processed[RenderThread][i].kind = "SetRouteSegmentVisibilityMessage"
       /\ PostedAfter(processed[RenderThread][i], PendingSeq(ResourceUploadThread)[j])

\* C25: in every state the viewport is (0, 0, w, h) for the w and h of the
\* last ResizeEvent handed to the user event stream, and the gui surface
\* has that size too; the viewport is written only by Resize and Update
\* (and the constructor); a Resize that finds another size and every
\* Update, also one with the current size, add exactly one ResizeEvent,
\* carrying the new width and height, to the end of the stream; a Resize
\* with the current size adds none.
C25_ViewportMirrored ==
  /\ [](/\ m_viewport = [x0 |-> 0, y0 |-> 0, w |-> lastResize.w, h |-> lastResize.h]
        /\ guiSurfaceSize = [w |-> lastResize.w, h |-> lastResize.h])
  /\ [](lastCall.op \in {"Update", "DrapeEngine"} =>
          lastEvents = <<[kind |-> "ResizeEvent", w |-> lastCall.w, h |-> lastCall.h]>>)
  /\ [](lastCall.op = "Resize" =>
          lastEvents = IF lastCall.pre.viewport.w # lastCall.w \/ lastCall.pre.viewport.h # lastCall.h
                       THEN <<[kind |-> "ResizeEvent", w |-> lastCall.w, h |-> lastCall.h]>>
                       ELSE <<>>)
  /\ [][m_viewport' # m_viewport =>
          /\ FacadeCalled
          /\ lastCall'.op \in {"Resize", "Update"}
          /\ lastEvents' = <<[kind |-> "ResizeEvent", w |-> m_viewport'.w, h |-> m_viewport'.h]>>
          /\ userEvents' = userEvents \o lastEvents']_vars
  /\ [][(FacadeCalled /\ lastCall'.op = "Update") =>
          /\ userEvents' = Append(userEvents, [kind |-> "ResizeEvent", w |-> m_viewport'.w,
                                                h |-> m_viewport'.h])
          /\ m_viewport'.w = lastCall'.w /\ m_viewport'.h = lastCall'.h]_vars

\* C25 witness: an Update with the size the viewport already had has added
\* its ResizeEvent, after the frontend had consumed the earlier events.
C25_Witness ==
  /\ lastCall.op = "Update"
  /\ lastCall.pre.viewport.w = lastCall.w
  /\ lastCall.pre.viewport.h = lastCall.h
  /\ lastCall.w # lastCall.h
  /\ userEvents = <<[kind |-> "ResizeEvent", w |-> lastCall.w, h |-> lastCall.h]>>
  /\ m_viewport.w = lastCall.w /\ m_viewport.h = lastCall.h

\* Whether a message carries a kinetic scroll value, and the value.
CarriesKinetic(m) == m.kind \in {"SetKineticScrollEnabledMessage", "SetAddNewPlaceModeMessage"}

KineticOf(m) == IF m.kind = "SetKineticScrollEnabledMessage" THEN m.flag ELSE m.flag2

\* The kinetic scroll values the RenderThread has received, in order.
KineticReceived == SelectSeq(processed[RenderThread], CarriesKinetic)

\* The RenderThread has nothing waiting and nothing in execution.
RenderDrained == QueueSize(queue[RenderThread]) = 0 /\ current[RenderThread] = NoMsg

\* The value the renderer is meant to hold.
KineticExpected == IF m_choosePositionMode THEN FALSE ELSE m_kineticScrollEnabled

\* C26: when the RenderThread has drained its queue and has received at
\* least one kinetic scroll value, the last value it received is false in
\* choose-position mode and the facade's m_kineticScrollEnabled outside it.
\* The same holds, at any moment, of the youngest message that carries a
\* kinetic scroll value, waiting or taken.
C26_KineticAgrees ==
  /\ (RenderDrained /\ KineticReceived # <<>>)
       => KineticOf(KineticReceived[Len(KineticReceived)]) = KineticExpected
  /\ \A i \in 1..Len(AllMessages(RenderThread)) :
       (/\ CarriesKinetic(AllMessages(RenderThread)[i])
        /\ \A j \in 1..Len(AllMessages(RenderThread)) :
             CarriesKinetic(AllMessages(RenderThread)[j])
               => AllMessages(RenderThread)[j].id <= AllMessages(RenderThread)[i].id)
         => KineticOf(AllMessages(RenderThread)[i]) = KineticExpected

\* C26 witness: kinetic scrolling was switched off inside choose-position
\* mode, which posted nothing, and the mode was then left; the RenderThread
\* has drained its queue and the last value it received, from the mode-set
\* message, is the flag's: off.
C26_Witness ==
  /\ RenderDrained
  /\ ~m_choosePositionMode
  /\ ~m_kineticScrollEnabled
  /\ lastCall.op = "EnableChoosePositionMode"
  /\ lastCall.pre.choose
  /\ Len(KineticReceived) >= 2
  /\ KineticReceived[Len(KineticReceived)].kind = "SetAddNewPlaceModeMessage"
  /\ ~KineticOf(KineticReceived[Len(KineticReceived)])
  /\ ~\E i \in 1..Len(KineticReceived) :
        KineticReceived[i].kind = "SetKineticScrollEnabledMessage"

\* The creation messages posted so far, at either context.
CreationMessages ==
  {m \in UNION {{AllMessages(ctx)[i] : i \in 1..Len(AllMessages(ctx))} : ctx \in ThreadName} :
     m.kind \in {"AddRouteSegmentMessage", "AddRoutePreviewSegmentMessage"}}

\* C27: AddRouteSegment and AddRoutePreviewSegment each post exactly one
\* message, of their own class, to their own context, carrying the id the
\* call returns; no two creation messages, of the same class or not, carry
\* the same id; and every id GenerateDrapeID has returned is carried by
\* exactly one creation message, or by none yet while its caller is about
\* to post.
C27_CreationIdsUnique ==
  /\ lastCall.op \in {"AddRouteSegment", "AddRoutePreviewSegment"} =>
       /\ Len(lastPosted) = 1
       /\ lastPosted[1].num = lastCall.num
       /\ lastPosted[1].prio = Normal
       /\ lastCall.op = "AddRouteSegment" =>
            /\ lastPosted[1].kind = "AddRouteSegmentMessage"
            /\ lastPosted[1].ctx = ResourceUploadThread
       /\ lastCall.op = "AddRoutePreviewSegment" =>
            /\ lastPosted[1].kind = "AddRoutePreviewSegmentMessage"
            /\ lastPosted[1].ctx = RenderThread
       /\ \E i \in 1..Len(returned) : returned[i].value = lastCall.num
  /\ \A m1 \in CreationMessages, m2 \in CreationMessages :
       m1.id # m2.id => m1.num # m2.num
  /\ \A i \in 1..Len(returned) :
       LET carriers == {m \in CreationMessages : m.num = returned[i].value} IN
       IF cpc[returned[i].caller] = "gen_post" /\ ret[returned[i].caller] = returned[i].value
       THEN carriers = {}
       ELSE Cardinality(carriers) = 1
  /\ \A m \in CreationMessages : \E i \in 1..Len(returned) : returned[i].value = m.num

\* C27 witness: a route segment and a route preview segment were created
\* by two callers whose calls overlapped; both messages have been posted.
C27_Witness ==
  /\ \E i \in 1..Len(returned), j \in 1..Len(returned) :
       /\ i < j
       /\ returned[i].caller # returned[j].caller
       /\ returned[i].value \notin returned[j].seen
       /\ \E m1 \in CreationMessages, m2 \in CreationMessages :
            /\ m1.kind = "AddRouteSegmentMessage"
            /\ m2.kind = "AddRoutePreviewSegmentMessage"
            /\ {m1.num, m2.num} = {returned[i].value, returned[j].value}
  /\ \A c \in Callers : cpc[c] = "idle"

\* C28: in every state, also between the two statements of either
\* operation, rendering enabled at the RenderThread's renderer implies
\* rendering enabled at the ResourceUploadThread's; a step of either
\* operation posts no message and adds no user event; enabling reaches the
\* ResourceUploadThread's renderer before the RenderThread's, disabling the
\* RenderThread's before the ResourceUploadThread's; and when an operation
\* has returned both renderers are as it asked.
C28_RenderingOrder ==
  /\ [](renderingEnabled[RenderThread] => renderingEnabled[ResourceUploadThread])
  /\ [](rcall = "enabling" => renderingEnabled[ResourceUploadThread])
  /\ [](rcall = "disabling" => ~renderingEnabled[RenderThread])
  /\ [][rcall' # rcall => UNCHANGED <<msgVars, lastPosted, lastEvents>>]_vars
  /\ [][renderingEnabled' # renderingEnabled => rcall' # rcall]_vars
  /\ [][(rcall = "enabling" /\ rcall' = "none") =>
          \A ctx \in ThreadName : renderingEnabled'[ctx]]_vars
  /\ [][(rcall = "disabling" /\ rcall' = "none") =>
          \A ctx \in ThreadName : ~renderingEnabled'[ctx]]_vars

\* C28 witness: rendering was disabled on both renderers and is being
\* enabled again: the ResourceUploadThread's renderer has it enabled, the
\* RenderThread's not yet, and a message waits at the RenderThread.
C28_Witness ==
  /\ rcall = "enabling"
  /\ renderingEnabled[ResourceUploadThread]
  /\ ~renderingEnabled[RenderThread]
  /\ \E i \in 1..Len(queue[RenderThread][High]) :
       queue[RenderThread][High][i].kind = "InvalidateMessage"

====
